---- MODULE Spec2Model ----
(***************************************************************************)
(* Verification model of the open-runner world streaming engine:          *)
(* ChunkContentManager / EnemyManager / ObjectPoolManager (content of a    *)
(* region), the object generator (placement), the terrain generator       *)
(* (height meshes and edge stitching), driven by the chunk coordinator.   *)
(***************************************************************************)
EXTENDS Integers, Sequences, FiniteSets, TLC

VARIABLES
    gameState,        \* "LOADING" | "TITLE" | "LOADING_LEVEL" | "PLAYING" | "LEVEL_TRANSITION"
    renderDistance,   \* worldConfig.RENDER_DISTANCE_CHUNKS (performance setting)
    levelConfig,      \* id of the level configuration in use
    lastCameraChunk,  \* ChunkManager.lastCameraChunkX (NoRegion before the first load)
    chunkState,       \* region -> load state
    loadedChunks,     \* region -> chunk data record, or NoChunk
    transitions,      \* load-state transitions made by the last coordinator call
    spatialGrid,      \* set of entities in the spatial index
    pools,            \* ObjectPoolManager.pools: name -> sequence of entities
    activeEnemies,    \* EnemyManager.activeEnemies (keys)
    entityType,       \* entity id -> userData.objectType / type (sequence, one per constructed entity)
    pendingTrees,     \* unresolved createObjectVisual promises of loadContent
    lateTrees,        \* entities created by a promise whose chunk had been unloaded
    lastCollect,      \* the collectObject call made by the last step (NoCollect if none)
    genSeed,          \* worldConfig.SEED
    genCalls,         \* number of generateObjectsForChunk calls made so far
    genPrev,          \* key (chunk, level) of the call before the last one
    genLast,          \* key, result and trace of the last generateObjectsForChunk call
    genFirst,         \* key -> result of the first call with that key; calls: 0, 1, or 2 for more
    terrainLOD,       \* chunk -> detail band (segments) the coordinator assigns to it
    terrainMeshes,    \* chunk -> terrain mesh built by createTerrainChunk, or NoMesh
    synthPrev,        \* arguments and result of the createTerrainChunk call before the last
    synthLast,        \* arguments and result of the last createTerrainChunk call
    held,             \* entities a caller of the pool manager holds (borrowed or constructed)
    disposed,         \* entities the pool manager has disposed (_disposeObject)
    lastPoolOp,       \* the getFromPool / addToPool call made by the last step
    poolOps,          \* number of pool manager calls made so far
    tilted,           \* entities whose rotation.x is not the resting one (Math.PI / 2)
    wasTilted,        \* entities that were rotated while a caller held them
    lastLoad,         \* the last loadContent call in which a constructor could throw
    playerDeathProcessing, \* eventHandlerSetup.js: flag set while a death is processed
    timers,           \* pending setTimeout callbacks, in the order they were created
    timerIds,         \* number of timers created so far (setTimeout returns the next id)
    now,              \* the clock the timers run against, in seconds
    currentScore,     \* ScoreManager currentScore
    currentLevelId,   \* LevelManager currentLevelId (NoLevel for null)
    starting,         \* the Game.startGame call in flight and the await it is parked at
    powerup,          \* player.powerup ("" when none is active)
    powerupTimeout,   \* PlayerManager.powerupTimeout: a timer id, or NoTimer for null
    flowLog,          \* what the event handlers have done so far (observation only)
    enemyAI,          \* one Enemy: state, roaming fields, and the arguments of its last update
    interaction,      \* uiInteractionUtils: interactionPromise, listeners, audio initialisation
    highScores,       \* ScoreManager globalHighScore and highScoresByLevel
    collisions        \* what the collision manager did in the last frame

worldVars == <<gameState, renderDistance, levelConfig, lastCameraChunk, chunkState,
               loadedChunks, transitions, spatialGrid, pools, activeEnemies,
               entityType, pendingTrees, lateTrees, lastCollect>>

genVars == <<genSeed, genCalls, genPrev, genLast, genFirst>>

terrainVars == <<terrainLOD, terrainMeshes>>

synthVars == <<synthPrev, synthLast>>

poolVars == <<held, disposed, lastPoolOp, poolOps, tilted, wasTilted>>

loadVars == <<lastLoad>>

flowVars == <<playerDeathProcessing, timers, timerIds, now, currentScore, currentLevelId,
              starting, powerup, powerupTimeout, flowLog>>

auxVars == <<enemyAI, interaction, highScores, collisions>>

vars == <<worldVars, genVars, terrainVars, synthVars, poolVars, loadVars, flowVars, auxVars>>

-----------------------------------------------------------------------------
(* Bounds of the model *)

MaxRegion == 5        \* regions -MinusRegions..MaxRegion on the line z = 0
MinusRegions == 2
MaxEntities == 6      \* entities constructed in one run
MaxView == 2          \* the viewpoint visits regions 0..MaxView in Spec

RngMod == 8           \* resolution of the random numbers: rng() is k/RngMod

MaxSeed == 2          \* world seeds 1..MaxSeed
MaxCalls == 3         \* calls of the object generator in one run
MaxPoolOps == 3       \* calls of the pool manager in one run

(* Program constants *)

maxPoolSize == 500
ROCK_DESERT_OFFSET == 6     \* createObjectVisual: verticalOffset = 0.6, in tenths
CHUNK_SIZE == 8
INITIAL_POS_X == 0
PLAYER_SPAWN_SAFE_RADIUS == 3

NULL == 0
NoRegion == -1
NoChunk == [loaded |-> FALSE]
Regions == (0 - MinusRegions)..MaxRegion
NoCollect == [key |-> NoRegion, index |-> 0, result |-> FALSE, mesh |-> NULL]

Max(S) == CHOOSE x \in S : \A y \in S : y <= x
SeqToSet(s) == {s[i] : i \in 1..Len(s)}
RemoveAt(s, i) == SubSeq(s, 1, i - 1) \o SubSeq(s, i + 1, Len(s))

-----------------------------------------------------------------------------
(* Level configuration: the object data the generator hands to loadContent *)

ENEMY_TYPES(cfg) == IF cfg = "level1" THEN {"bear"} ELSE {}

\* verticalOffset of an object type in the level configuration, in tenths of a unit
VerticalOffset(type) ==
    IF type = "coin" THEN 10 ELSE IF type = "rock_desert" THEN 5 ELSE 0

\* y is position.y less the terrain height at the position: the generator sets it to
\* the type's verticalOffset; scored counts the scoreChanged events emitted for the
\* entry since its record was created
NewObjectData(type) ==
    [type |-> type, collidable |-> (type # "coin"), collected |-> FALSE,
     mesh |-> NULL, enemyInstance |-> NULL, isDynamic |-> (type = "tumbleweed"),
     y |-> VerticalOffset(type), scored |-> 0]

LevelObjectTypes(cfg, r) ==
    IF cfg = "level1"
    THEN IF r % 2 = 0 THEN <<"coin", "tree_pine", "bear">> ELSE <<"tumbleweed", "coin">>
    ELSE IF cfg = "level2"
    THEN IF r % 2 = 0 THEN <<"rock_desert", "coin">> ELSE <<"coin">>
    ELSE << >>

ObjectDataArray(cfg, r) ==
    [i \in 1..Len(LevelObjectTypes(cfg, r)) |-> NewObjectData(LevelObjectTypes(cfg, r)[i])]

-----------------------------------------------------------------------------
(* ObjectPoolManager *)

PoolNames == {"collectibles", "obstacles", "tumbleweeds", "enemies"}

MatchIndex_fromStart(pool, types, objectType) ==
    LET S == {i \in 1..Len(pool) : types[pool[i]] = objectType}
    IN IF S = {} THEN 0 ELSE CHOOSE i \in S : \A j \in S : i <= j

MatchIndex(pool, types, objectType) ==
    LET S == {i \in 1..Len(pool) : types[pool[i]] = objectType}
    IN IF S = {} THEN 0 ELSE Max(S)

getFromPool(ps, types, poolName, objectType) ==
    IF poolName \notin DOMAIN ps \/ Len(ps[poolName]) = 0
    THEN [object |-> NULL, pools |-> ps]
    ELSE IF objectType # ""
         THEN LET i == MatchIndex(ps[poolName], types, objectType)
              IN IF i # 0
                 THEN [object |-> ps[poolName][i],
                       pools |-> [ps EXCEPT ![poolName] = RemoveAt(@, i)]]
                 ELSE [object |-> NULL, pools |-> ps]
         ELSE [object |-> ps[poolName][Len(ps[poolName])],
               pools |-> [ps EXCEPT ![poolName] = SubSeq(@, 1, Len(@) - 1)]]

addToPool_evictsNewest(ps, poolName, object) ==
    LET ps1 == IF poolName \in DOMAIN ps THEN ps
               ELSE [n \in DOMAIN ps \cup {poolName} |->
                        IF n \in DOMAIN ps THEN ps[n] ELSE << >>]
    IN IF object = NULL THEN ps1
       ELSE LET kept == IF Len(ps1[poolName]) >= maxPoolSize
                        THEN SubSeq(ps1[poolName], 1, Len(ps1[poolName]) - 1)
                        ELSE ps1[poolName]
            IN [ps1 EXCEPT ![poolName] = Append(kept, object)]

addToPool(ps, poolName, object) ==
    LET ps1 == IF poolName \in DOMAIN ps THEN ps
               ELSE [n \in DOMAIN ps \cup {poolName} |->
                        IF n \in DOMAIN ps THEN ps[n] ELSE << >>]
    IN IF object = NULL THEN ps1
       ELSE LET kept == IF Len(ps1[poolName]) >= maxPoolSize
                        THEN Tail(ps1[poolName]) ELSE ps1[poolName]
            IN [ps1 EXCEPT ![poolName] = Append(kept, object)]

-----------------------------------------------------------------------------
(* EnemyManager.  w is the record of the mutable managers: pools, grid,    *)
(* active (activeEnemies, in insertion order), etype (entityType).         *)

enemyClassMap == {"bear", "squirrel", "deer", "coyote", "rattlesnake", "scorpion"}

\* ctorThrows: the enemy class constructor throws if it is called (lines 638-646: the
\* exception is caught and logged, the spawn returns null)
spawnEnemy(w, enemyType, cfg, ctorThrows) ==
    IF enemyType \notin ENEMY_TYPES(cfg) \/ enemyType \notin enemyClassMap
    THEN [instance |-> NULL, w |-> w, failed |-> FALSE]
    ELSE LET g == getFromPool(w.pools, w.etype, "enemies", enemyType)
             fresh == g.object = NULL
             id == IF fresh THEN Len(w.etype) + 1 ELSE g.object
         IN IF fresh /\ ctorThrows
            THEN [instance |-> NULL, w |-> w, failed |-> TRUE]
            ELSE [instance |-> id, failed |-> FALSE,
                  w |-> [w EXCEPT !.pools = g.pools,
                                  !.etype = IF fresh THEN Append(@, enemyType) ELSE @,
                                  !.active = IF id \in SeqToSet(@) THEN @ ELSE Append(@, id),
                                  !.grid = @ \cup {id}]]

removeEnemy_unchecked(w, enemyInstance) ==
    IF enemyInstance = NULL THEN w
    ELSE [w EXCEPT !.grid = @ \ {enemyInstance},
                   !.active = SelectSeq(@, LAMBDA e : e # enemyInstance),
                   !.pools = addToPool(@, "enemies", enemyInstance)]

removeEnemy(w, enemyInstance) ==
    IF enemyInstance = NULL \/ enemyInstance \notin SeqToSet(w.active) THEN w
    ELSE [w EXCEPT !.grid = @ \ {enemyInstance},
                   !.active = SelectSeq(@, LAMBDA e : e # enemyInstance),
                   !.pools = addToPool(@, "enemies", enemyInstance)]

RECURSIVE RemoveEnemies(_, _)
RemoveEnemies(w, enemies) ==
    IF enemies = << >> THEN w
    ELSE RemoveEnemies(removeEnemy(w, Head(enemies)), Tail(enemies))

removeAllEnemies(w) ==
    LET w1 == RemoveEnemies(w, w.active) IN [w1 EXCEPT !.active = << >>]

-----------------------------------------------------------------------------
(* ChunkContentManager.loadContent.  c is the chunk data being filled:     *)
(* objects (the objectDataArray) and the four reference lists returned.    *)
(* Object indices are 1-based here; the code's are 0-based.  throws is the *)
(* set of entries whose entity constructor throws if it is called;         *)
(* failures counts the exceptions raised, escaped tells that one left      *)
(* loadContent uncaught.                                                   *)

SyncVisualTypes == {"coin", "magnet", "doubler", "invisibility", "rock_small", "rock_large",
                    "log_fallen", "cabin_simple", "rock_desert", "cactus_saguaro"}

NewChunkData(objects) ==
    [loaded |-> TRUE, objects |-> objects, collectibles |-> << >>, collidables |-> << >>,
     enemies |-> << >>, tumbleweeds |-> << >>]

\* lines 197-234: a mesh was obtained for a static object
PlaceMesh(wc, i, mesh) ==
    LET od == wc.c.objects[i]
    IN [wc EXCEPT !.w = [wc.w EXCEPT !.grid = @ \cup {mesh}],
                  !.c = [wc.c EXCEPT !.objects[i].mesh = mesh,
                           !.collidables = IF od.collidable THEN Append(@, mesh) ELSE @,
                           !.collectibles = IF od.collidable THEN @ ELSE Append(@, mesh)]]

LoadEntry(wc, key, i, cfg, throws) ==
    LET od == wc.c.objects[i]
        w == wc.w
    IN IF od.type \in ENEMY_TYPES(cfg)
       THEN LET sp == spawnEnemy(w, od.type, cfg, i \in throws)
            IN IF sp.instance # NULL
               THEN [wc EXCEPT !.w = sp.w,
                               !.c = [wc.c EXCEPT !.enemies = Append(@, sp.instance),
                                                  !.objects[i].enemyInstance = sp.instance]]
               ELSE [wc EXCEPT !.w = sp.w,
                               !.failures = IF sp.failed THEN @ + 1 ELSE @]
       ELSE IF od.type = "tumbleweed" /\ od.isDynamic
       THEN LET g == getFromPool(w.pools, w.etype, "tumbleweeds", "")
                fresh == g.object = NULL
                id == IF fresh THEN Len(w.etype) + 1 ELSE g.object
            IN IF fresh /\ i \in throws
               \* lines 90-96: new Tumbleweed(...) is in no try block
               THEN [wc EXCEPT !.failures = @ + 1, !.escaped = TRUE]
               ELSE [wc EXCEPT
                        !.w = [w EXCEPT !.pools = g.pools,
                                        !.etype = IF fresh THEN Append(@, "tumbleweed") ELSE @,
                                        !.grid = @ \cup {id}],
                        !.c = [wc.c EXCEPT !.tumbleweeds = Append(@, id),
                                           !.objects[i].mesh = id]]
       ELSE LET poolName == IF od.collidable THEN "obstacles" ELSE "collectibles"
                g == getFromPool(w.pools, w.etype, poolName, od.type)
            IN IF g.object # NULL
               THEN PlaceMesh([wc EXCEPT !.w = [w EXCEPT !.pools = g.pools]], i, g.object)
               ELSE IF od.type = "tree_pine"
               THEN [wc EXCEPT !.w = [w EXCEPT !.pending =
                                @ \cup {[key |-> key, index |-> i, stale |-> FALSE]}]]
               ELSE IF od.type \in SyncVisualTypes
               THEN IF i \in throws
                    \* lines 155-181: caught and logged, the entry gets no mesh
                    THEN [wc EXCEPT !.failures = @ + 1]
                    \* createObjectVisual writes objectData.position.y for a rock_desert
                    ELSE LET made == PlaceMesh([wc EXCEPT !.w = [w EXCEPT !.etype =
                                                    Append(@, od.type)]], i, Len(w.etype) + 1)
                         IN IF od.type = "rock_desert"
                            THEN [made EXCEPT !.c.objects[i].y = ROCK_DESERT_OFFSET]
                            ELSE made
               ELSE wc

RECURSIVE LoadFrom(_, _, _, _, _)
LoadFrom(wc, key, i, cfg, throws) ==
    IF i > Len(wc.c.objects) \/ wc.escaped THEN wc
    ELSE LoadFrom(LoadEntry(wc, key, i, cfg, throws), key, i + 1, cfg, throws)

loadContent(w, key, objectDataArray, cfg, throws) ==
    LoadFrom([w |-> w, c |-> NewChunkData(objectDataArray), failures |-> 0,
              escaped |-> FALSE], key, 1, cfg, throws)

-----------------------------------------------------------------------------
(* ChunkContentManager.unloadContent *)

UnloadObject_keepsIndex(w, od) ==
    IF od.enemyInstance = NULL /\ od.mesh # NULL /\ od.type # "tumbleweed"
    THEN [w EXCEPT !.pools = addToPool(@, IF od.collidable THEN "obstacles"
                                          ELSE "collectibles", od.mesh)]
    ELSE w

UnloadObject(w, od) ==
    IF od.enemyInstance = NULL /\ od.mesh # NULL /\ od.type # "tumbleweed"
    THEN [w EXCEPT !.grid = @ \ {od.mesh},
                   !.pools = addToPool(@, IF od.collidable THEN "obstacles"
                                          ELSE "collectibles", od.mesh)]
    ELSE w

RECURSIVE UnloadObjects(_, _)
UnloadObjects(w, objects) ==
    IF objects = << >> THEN w
    ELSE UnloadObjects(UnloadObject(w, Head(objects)), Tail(objects))

UnloadTumbleweed_skipIndex(w, tumbleweed) ==
    [w EXCEPT !.pools = addToPool(@, "tumbleweeds", tumbleweed)]

UnloadTumbleweed(w, tumbleweed) ==
    [w EXCEPT !.grid = @ \ {tumbleweed},
              !.pools = addToPool(@, "tumbleweeds", tumbleweed)]

RECURSIVE UnloadTumbleweeds(_, _)
UnloadTumbleweeds(w, tumbleweeds) ==
    IF tumbleweeds = << >> THEN w
    ELSE UnloadTumbleweeds(UnloadTumbleweed(w, Head(tumbleweeds)), Tail(tumbleweeds))

unloadContent(w, chunkData) ==
    IF ~chunkData.loaded THEN w
    ELSE UnloadTumbleweeds(
             RemoveEnemies(UnloadObjects(w, chunkData.objects), chunkData.enemies),
             chunkData.tumbleweeds)

-----------------------------------------------------------------------------
(* ChunkContentManager.collectObject *)

CollectEligible_anyCollectible(object) == ~object.collidable

CollectEligible(object) ==
    ~object.collidable /\ object.mesh # NULL /\ ~object.collected

MarkCollected_keepsEntry(object) == object

MarkCollected(object) == [object EXCEPT !.mesh = NULL, !.collected = TRUE]

\* objectIndex is the code's 0-based index
collectObject(w, chunks, chunkKey, objectIndex) ==
    LET known == chunkKey \in DOMAIN chunks /\ chunks[chunkKey].loaded
        inRange == known /\ objectIndex >= 0
                         /\ objectIndex < Len(chunks[chunkKey].objects)
        object == chunks[chunkKey].objects[objectIndex + 1]
    IN IF inRange /\ CollectEligible(object)
       THEN [result |-> TRUE,
             w |-> [w EXCEPT !.grid = @ \ {object.mesh},
                             !.pools = addToPool(@, "collectibles", object.mesh)],
             chunks |-> [chunks EXCEPT
                 ![chunkKey].collectibles = SelectSeq(@, LAMBDA m : m # object.mesh),
                 ![chunkKey].objects[objectIndex + 1] = MarkCollected(object)]]
       ELSE [result |-> FALSE, w |-> w, chunks |-> chunks]

-----------------------------------------------------------------------------
(* Chunk coordinator (ChunkManager): the retention ring and the load-state  *)
(* machine of a region.                                                     *)

AllowedTransitions ==
    {<<"Unloaded", "Requested">>, <<"Requested", "Loading">>, <<"Loading", "Resident">>,
     <<"Resident", "Unloading">>, <<"Unloading", "Unloaded">>, <<"Loading", "Unloaded">>}

WorldToChunk(x) == x \div CHUNK_SIZE

RetentionSet_open(c) ==
    {r \in Regions : r - c < renderDistance /\ c - r < renderDistance}

RetentionSet(c) ==
    {r \in Regions : r - c <= renderDistance /\ c - r <= renderDistance}

ScheduleState_dropsLoading(s, inside) ==
    IF inside /\ s = "Unloaded" THEN "Requested"
    ELSE IF ~inside /\ s \in {"Resident", "Requested"} THEN
         IF s = "Resident" THEN "Unloading" ELSE "Unloaded"
    ELSE s

ScheduleState(s, inside) ==
    IF inside /\ s = "Unloaded" THEN "Requested"
    ELSE IF ~inside /\ s = "Resident" THEN "Unloading"
    ELSE s

Schedule(c) == [r \in Regions |-> ScheduleState(chunkState[r], r \in RetentionSet(c))]

Changed(old, new) == {<<old[r], new[r]>> : r \in {q \in Regions : old[q] # new[q]}}

World == [pools |-> pools, grid |-> spatialGrid, active |-> activeEnemies,
          etype |-> entityType, pending |-> pendingTrees]

Commit(w) ==
    /\ Len(w.etype) <= MaxEntities
    /\ pools' = w.pools
    /\ spatialGrid' = w.grid
    /\ activeEnemies' = w.active
    /\ entityType' = w.etype
    /\ pendingTrees' = w.pending

\* the promises of a discarded chunk keep their closure over the dead record
Orphan(pending, key) ==
    {IF p.key = key THEN [p EXCEPT !.stale = TRUE] ELSE p : p \in pending}

\* clearAllChunks: every loaded chunk is unloaded, every load in flight abandoned
RECURSIVE ClearFrom(_, _)
ClearFrom(w, r) ==
    IF r > MaxRegion THEN w
    ELSE ClearFrom([unloadContent(w, loadedChunks[r]) EXCEPT !.pending = Orphan(@, r)], r + 1)

ClearTransitions ==
    UNION {IF chunkState[r] = "Requested"
              THEN {<<"Requested", "Loading">>, <<"Loading", "Unloaded">>}
           ELSE IF chunkState[r] = "Loading" THEN {<<"Loading", "Unloaded">>}
           ELSE IF chunkState[r] = "Resident"
              THEN {<<"Resident", "Unloading">>, <<"Unloading", "Unloaded">>}
           ELSE IF chunkState[r] = "Unloading" THEN {<<"Unloading", "Unloaded">>}
           ELSE {} : r \in Regions}

loadLevel(w) ==
    /\ gameState' = "LOADING_LEVEL"
    /\ Commit(ClearFrom(removeAllEnemies(w), 0 - MinusRegions))
    /\ chunkState' = [r \in Regions |-> "Unloaded"]
    /\ loadedChunks' = [r \in Regions |-> NoChunk]
    /\ transitions' = ClearTransitions
    /\ UNCHANGED <<genVars, terrainVars, synthVars, poolVars, loadVars, flowVars, auxVars>>
    /\ lastCameraChunk' = NoRegion
    /\ UNCHANGED <<renderDistance, levelConfig, lateTrees>>
    /\ lastCollect' = NoCollect

-----------------------------------------------------------------------------
(* Actions *)

ViewPositions == {v * CHUNK_SIZE + CHUNK_SIZE \div 2 : v \in 0..MaxView}

\* Game.startGame, from the title screen's start button: the index is cleared,
\* then the level is loaded
startGame ==
    /\ gameState = "TITLE"
    /\ loadLevel([World EXCEPT !.grid = {}])

\* ChunkManager.loadInitialChunks: the ring around the start position is requested
loadInitialChunks ==
    /\ gameState \in {"LOADING", "LOADING_LEVEL"}
    /\ lastCameraChunk = NoRegion
    /\ lastCameraChunk' = WorldToChunk(INITIAL_POS_X)
    /\ chunkState' = Schedule(WorldToChunk(INITIAL_POS_X))
    /\ transitions' = Changed(chunkState, chunkState')
    /\ UNCHANGED <<genVars, terrainVars, synthVars, poolVars, loadVars, flowVars, auxVars>>
    /\ UNCHANGED <<gameState, renderDistance, levelConfig, loadedChunks, spatialGrid, pools,
                   activeEnemies, entityType, pendingTrees, lateTrees>>
    /\ lastCollect' = NoCollect

\* loadInitialChunks has resolved: title screen after startup, gameplay after a level load
FinishLoading ==
    /\ gameState \in {"LOADING", "LOADING_LEVEL"}
    /\ lastCameraChunk # NoRegion
    /\ \A r \in Regions : chunkState[r] \notin {"Requested", "Loading"}
    /\ gameState' = IF gameState = "LOADING" THEN "TITLE" ELSE "PLAYING"
    /\ transitions' = {}
    /\ UNCHANGED <<genVars, terrainVars, synthVars, poolVars, loadVars, flowVars, auxVars>>
    /\ UNCHANGED <<renderDistance, levelConfig, lastCameraChunk, chunkState, loadedChunks,
                   spatialGrid, pools, activeEnemies, entityType, pendingTrees, lateTrees>>
    /\ lastCollect' = NoCollect

\* updateGameplay -> ChunkManager.update(playerPosition): scheduling only
Update(x) ==
    /\ gameState = "PLAYING"
    /\ WorldToChunk(x) # lastCameraChunk
    /\ lastCameraChunk' = WorldToChunk(x)
    /\ chunkState' = Schedule(WorldToChunk(x))
    /\ transitions' = Changed(chunkState, chunkState')
    /\ UNCHANGED <<genVars, terrainVars, synthVars, poolVars, loadVars, flowVars, auxVars>>
    /\ UNCHANGED <<gameState, renderDistance, levelConfig, loadedChunks, spatialGrid, pools,
                   activeEnemies, entityType, pendingTrees, lateTrees>>
    /\ lastCollect' = NoCollect

Stepping == gameState \in {"LOADING", "LOADING_LEVEL", "PLAYING"}

\* a requested region starts loading: its record is created with the generated entries
ProcessRequested(r) ==
    /\ Stepping
    /\ chunkState[r] = "Requested"
    /\ chunkState' = [chunkState EXCEPT ![r] = "Loading"]
    /\ loadedChunks' = [loadedChunks EXCEPT ![r] = NewChunkData(ObjectDataArray(levelConfig, r))]
    /\ transitions' = {<<"Requested", "Loading">>}
    /\ UNCHANGED <<genVars, terrainVars, synthVars, poolVars, loadVars, flowVars, auxVars>>
    /\ UNCHANGED <<gameState, renderDistance, levelConfig, lastCameraChunk, spatialGrid, pools,
                   activeEnemies, entityType, pendingTrees, lateTrees>>
    /\ lastCollect' = NoCollect

\* a loading region still in the retention set is committed: loadContent runs
CompleteLoad(r) ==
    /\ Stepping
    /\ chunkState[r] = "Loading"
    /\ r \in RetentionSet(lastCameraChunk)
    /\ LET wc == loadContent(World, r, loadedChunks[r].objects, levelConfig, {})
       IN /\ Commit(wc.w)
          /\ loadedChunks' = [loadedChunks EXCEPT ![r] = wc.c]
    /\ chunkState' = [chunkState EXCEPT ![r] = "Resident"]
    /\ transitions' = {<<"Loading", "Resident">>}
    /\ UNCHANGED <<genVars, terrainVars, synthVars, poolVars, loadVars, flowVars, auxVars>>
    /\ UNCHANGED <<gameState, renderDistance, levelConfig, lastCameraChunk, lateTrees>>
    /\ lastCollect' = NoCollect

\* a loading region that left the retention set is abandoned: nothing is committed
CancelLoad(r) ==
    /\ Stepping
    /\ chunkState[r] = "Loading"
    /\ r \notin RetentionSet(lastCameraChunk)
    /\ chunkState' = [chunkState EXCEPT ![r] = "Unloaded"]
    /\ loadedChunks' = [loadedChunks EXCEPT ![r] = NoChunk]
    /\ transitions' = {<<"Loading", "Unloaded">>}
    /\ UNCHANGED <<genVars, terrainVars, synthVars, poolVars, loadVars, flowVars, auxVars>>
    /\ UNCHANGED <<gameState, renderDistance, levelConfig, lastCameraChunk, spatialGrid, pools,
                   activeEnemies, entityType, pendingTrees, lateTrees>>
    /\ lastCollect' = NoCollect

\* an unloading region is unloaded: unloadContent runs and the record is discarded
ProcessUnloading(r) ==
    /\ Stepping
    /\ chunkState[r] = "Unloading"
    /\ Commit([unloadContent(World, loadedChunks[r]) EXCEPT !.pending = Orphan(@, r)])
    /\ chunkState' = [chunkState EXCEPT ![r] = "Unloaded"]
    /\ loadedChunks' = [loadedChunks EXCEPT ![r] = NoChunk]
    /\ transitions' = {<<"Unloading", "Unloaded">>}
    /\ UNCHANGED <<genVars, terrainVars, synthVars, poolVars, loadVars, flowVars, auxVars>>
    /\ UNCHANGED <<gameState, renderDistance, levelConfig, lastCameraChunk, lateTrees>>
    /\ lastCollect' = NoCollect

\* the .then callback of createObjectVisual in loadContent (lines 124-149)
TreeResolve(p) ==
    /\ p \in pendingTrees
    /\ Len(entityType) < MaxEntities
    /\ LET treeMesh == Len(entityType) + 1
       IN /\ entityType' = Append(entityType, "tree_pine")
          /\ spatialGrid' = spatialGrid \cup {treeMesh}
          /\ pendingTrees' = pendingTrees \ {p}
          /\ IF p.stale
             THEN /\ lateTrees' = lateTrees \cup {treeMesh}
                  /\ UNCHANGED loadedChunks
             ELSE /\ UNCHANGED lateTrees
                  /\ loadedChunks' = [loadedChunks EXCEPT
                        ![p.key].objects[p.index].mesh = treeMesh,
                        ![p.key].collidables =
                            IF loadedChunks[p.key].objects[p.index].collidable
                            THEN Append(@, treeMesh) ELSE @,
                        ![p.key].collectibles =
                            IF loadedChunks[p.key].objects[p.index].collidable
                            THEN @ ELSE Append(@, treeMesh)]
    /\ transitions' = {}
    /\ UNCHANGED <<genVars, terrainVars, synthVars, poolVars, loadVars, flowVars, auxVars>>
    /\ UNCHANGED <<gameState, renderDistance, levelConfig, lastCameraChunk, chunkState, pools,
                   activeEnemies>>
    /\ lastCollect' = NoCollect

\* collisionManager / updateCollectibles -> collectObject(chunkKey, objectIndex)
CollectObject(chunkKey, objectIndex) ==
    /\ gameState = "PLAYING"
    /\ LET res == collectObject(World, loadedChunks, chunkKey, objectIndex)
       IN /\ Commit(res.w)
          /\ loadedChunks' = res.chunks
          /\ lastCollect' = [key |-> chunkKey, index |-> objectIndex, result |-> res.result,
                             mesh |-> IF res.result
                                      THEN loadedChunks[chunkKey].objects[objectIndex + 1].mesh
                                      ELSE NULL]
    /\ transitions' = {}
    /\ UNCHANGED <<genVars, terrainVars, synthVars, poolVars, loadVars, flowVars, auxVars>>
    /\ UNCHANGED <<gameState, renderDistance, levelConfig, lastCameraChunk, chunkState,
                   lateTrees>>

\* the object generator and the terrain generator before their first call
GenKeys == {<<0, 0>>, <<1, 0>>, <<0, 1>>} \X {"forest", "desert"}
NoGen == [key |-> << >>, entries |-> << >>, skipped |-> 0, planned |-> 0, missing |-> 0,
          placements |-> << >>]
NoFirst == [entries |-> << >>, skipped |-> 0, calls |-> 0]

GenIdle ==
    /\ genSeed = 1
    /\ genCalls = 0
    /\ genPrev = << >>
    /\ genLast = NoGen
    /\ genFirst = [k \in GenKeys |-> NoFirst]

TerrainChunks == {<<0, 0>>, <<1, 0>>, <<0, 1>>}
NoMesh == [built |-> FALSE]

NoSynth == [called |-> FALSE]

NoPoolOp == [op |-> "none", pool |-> "", type |-> "", object |-> NULL]

PoolIdle ==
    /\ held = {}
    /\ disposed = {}
    /\ lastPoolOp = NoPoolOp
    /\ poolOps = 0
    /\ tilted = {}
    /\ wasTilted = {}

NoLoad == [key |-> NoRegion, failures |-> 0, escaped |-> FALSE]

LoadIdle == lastLoad = NoLoad

NoLevel == "none"

NoTimer == 0

NoStart == [levelId |-> NoLevel, at |-> "idle"]

NoFlowLog == [accepted |-> 0, ignored |-> 0, highScoreUpdates |-> 0, toGameOver |-> 0, gameOverEvents |-> 0, atThreshold |-> 0, level2Starts |-> 0, loadFailed |-> FALSE, collections |-> 0, collectedAt |-> 0, expired |-> 0, requests |-> 0, refused |-> 0, refusedWith |-> 0]

NoEnemyAI == [state |-> "idle", roamingTarget |-> FALSE, roamingWaitTimer |-> 0, powerup |-> "", was |-> "idle", distanceToPlayer |-> 0]

NoInteraction == [interactionPromise |-> 0, resolveInteractionPromise |-> 0, promises |-> 0, returned |-> 0, listeners |-> {}, awaiting |-> << >>, isInitialized |-> FALSE, inits |-> 0, resolved |-> {}, errors |-> 0]

NoStored == [globalHighScore |-> 0, highScoresByLevel |-> [l \in {"level1", "level2"} |-> 0]]

NoHighScores == [globalHighScore |-> 0, highScoresByLevel |-> [l \in {"level1", "level2"} |-> 0], stored |-> NoStored, op |-> "", score |-> 0, levelId |-> "none", isNewHighScore |-> FALSE]

NoCollisions == [events |-> {}, collected |-> {}, skipped |-> {}]

AuxIdle ==
    /\ enemyAI = NoEnemyAI
    /\ interaction = NoInteraction
    /\ highScores = NoHighScores
    /\ collisions = NoCollisions

FlowIdle ==
    /\ playerDeathProcessing = FALSE
    /\ timers = << >>
    /\ timerIds = 0
    /\ now = 0
    /\ currentScore = 0
    /\ currentLevelId = NoLevel
    /\ starting = NoStart
    /\ powerup = ""
    /\ powerupTimeout = NoTimer
    /\ flowLog = NoFlowLog

SynthIdle ==
    /\ synthPrev = NoSynth
    /\ synthLast = NoSynth

TerrainIdle ==
    /\ terrainLOD = [c \in TerrainChunks |-> 0]
    /\ terrainMeshes = [c \in TerrainChunks |-> NoMesh]
    /\ SynthIdle
    /\ LoadIdle
    /\ FlowIdle
    /\ AuxIdle
    /\ PoolIdle

InitWorld ==
    /\ gameState = "LOADING"
    /\ lastCameraChunk = NoRegion
    /\ chunkState = [r \in Regions |-> "Unloaded"]
    /\ loadedChunks = [r \in Regions |-> NoChunk]
    /\ transitions = {}
    /\ spatialGrid = {}
    /\ pools = [n \in PoolNames |-> << >>]
    /\ activeEnemies = << >>
    /\ entityType = << >>
    /\ pendingTrees = {}
    /\ lateTrees = {}
    /\ lastCollect = NoCollect

Init ==
    /\ InitWorld
    /\ renderDistance = 0
    /\ levelConfig = "level1"
    /\ GenIdle
    /\ TerrainIdle

Next ==
    \/ startGame
    \/ loadInitialChunks
    \/ FinishLoading
    \* the runner advances along the track
    \/ \E x \in {v \in ViewPositions : WorldToChunk(v) >= lastCameraChunk} : Update(x)
    \/ \E r \in Regions : ProcessRequested(r)
    \/ \E r \in Regions : CompleteLoad(r)
    \/ \E r \in Regions : CancelLoad(r)
    \/ \E r \in Regions : ProcessUnloading(r)
    \/ \E p \in pendingTrees : TreeResolve(p)
    \/ \E k \in 0..MaxView, i \in 0..1 : CollectObject(k, i)

Spec == Init /\ [][Next]_vars

-----------------------------------------------------------------------------
(* Properties of the content of regions *)

Entities == 1..Len(entityType)

\* the spawned list of a region: the four reference lists loadContent returned
Spawned(r) ==
    IF ~loadedChunks[r].loaded THEN {}
    ELSE SeqToSet(loadedChunks[r].collectibles) \cup SeqToSet(loadedChunks[r].collidables)
         \cup SeqToSet(loadedChunks[r].enemies) \cup SeqToSet(loadedChunks[r].tumbleweeds)

Occurrences(seq, e) == Cardinality({i \in 1..Len(seq) : seq[i] = e})

PoolCount(e) ==
    Occurrences(pools["collectibles"], e) + Occurrences(pools["obstacles"], e)
    + Occurrences(pools["tumbleweeds"], e) + Occurrences(pools["enemies"], e)

ActiveCount(e) == Cardinality({r \in Regions : e \in Spawned(r)})

PoolFor(e) ==
    IF entityType[e] \in ENEMY_TYPES(levelConfig) THEN "enemies"
    ELSE IF entityType[e] = "tumbleweed" THEN "tumbleweeds"
    ELSE IF entityType[e] = "coin" THEN "collectibles"
    ELSE "obstacles"

\* C1: every entity in the spatial index belongs to the spawned list of exactly one
\* region that is resident (a region whose unload is scheduled but has not run yet
\* is counted as resident here, so only entities of no region fail it).
IndexedEntitiesOwned ==
    \A e \in spatialGrid :
        Cardinality({r \in Regions : chunkState[r] \in {"Resident", "Unloading"}
                                     /\ e \in Spawned(r)}) = 1

\* C2: every constructed entity is in exactly one place: once in one pool, or in the
\* spawned list of one region.
ExactlyOnePlace ==
    \A e \in Entities : PoolCount(e) + ActiveCount(e) = 1

\* C3: an entity whose visual was still pending when its region was unloaded is never
\* inserted into the spatial index.
StaleVisualNeverIndexed ==
    lateTrees \cap spatialGrid = {}

ValidEntry(key, index) ==
    /\ key \in Regions
    /\ loadedChunks[key].loaded
    /\ index >= 0 /\ index < Len(loadedChunks[key].objects)

\* C4: collectObject on a live, uncollected collectible entry returns true, takes the
\* entity out of the index and puts it once into the collectibles pool and marks the
\* entry collected; a call on an entry already collected, and a call that directly
\* follows a successful call on the same entry, returns false and changes neither
\* the index nor the pools.
CollectOnce ==
    [][lastCollect' # NoCollect =>
        LET key == lastCollect'.key
            index == lastCollect'.index
            entry == loadedChunks[key].objects[index + 1]
        IN /\ (ValidEntry(key, index) /\ CollectEligible(entry)) =>
                  /\ lastCollect'.result = TRUE
                  /\ entry.mesh \notin spatialGrid'
                  /\ Occurrences(pools'["collectibles"], entry.mesh) = 1
                  /\ Occurrences(pools["collectibles"], entry.mesh) = 0
                  /\ loadedChunks'[key].objects[index + 1].collected
           /\ (ValidEntry(key, index) /\ entry.collected) =>
                  /\ lastCollect'.result = FALSE
                  /\ spatialGrid' = spatialGrid
                  /\ pools' = pools
           /\ (lastCollect.result /\ lastCollect.key = key /\ lastCollect.index = index) =>
                  /\ lastCollect'.result = FALSE
                  /\ spatialGrid' = spatialGrid
                  /\ pools' = pools
           /\ lastCollect'.result => (ValidEntry(key, index) /\ ~entry.collected)
      ]_vars

\* a second call on a collected entry has just returned false
CollectedTwice ==
    /\ lastCollect # NoCollect
    /\ ~lastCollect.result
    /\ ValidEntry(lastCollect.key, lastCollect.index)
    /\ loadedChunks[lastCollect.key].objects[lastCollect.index + 1].collected

Path(a, b, T) == <<a, b>> \in T \/ \E m \in {t[2] : t \in T} : <<a, m>> \in T /\ <<m, b>> \in T

UnloadReleasesAll ==
    [][\A r \in Regions :
          (Spawned(r) # {} /\ chunkState'[r] = "Unloaded") =>
              /\ loadedChunks'[r] = NoChunk
              /\ \A e \in Spawned(r) :
                    /\ e \notin spatialGrid'
                    /\ Occurrences(pools'[PoolFor(e)], e) = 1]_vars

\* a region with a tree, an enemy, a coin and one with a tumbleweed have been unloaded
UnloadedAllKinds ==
    /\ transitions = {<<"Unloading", "Unloaded">>}
    /\ \A n \in PoolNames : pools[n] # << >>

-----------------------------------------------------------------------------
(* The retention ring: render distance 2 over a level without content *)

\* the viewpoint moves between the start region and region 3
RingViewPositions == {v * CHUNK_SIZE + CHUNK_SIZE \div 2 : v \in {0, 3}}

InitRing ==
    /\ InitWorld
    /\ renderDistance = 2
    /\ levelConfig = "empty"
    /\ GenIdle
    /\ TerrainIdle

NextRing ==
    \/ startGame
    \/ loadInitialChunks
    \/ FinishLoading
    \/ \E x \in RingViewPositions : Update(x)
    \/ \E r \in Regions : ProcessRequested(r)
    \/ \E r \in Regions : CompleteLoad(r)
    \/ \E r \in Regions : CancelLoad(r)
    \/ \E r \in Regions : ProcessUnloading(r)

SpecRing == InitRing /\ [][NextRing]_vars

RingSettled(c) ==
    \A r \in Regions :
        chunkState[r] = IF r - c <= 2 /\ c - r <= 2 THEN "Resident" ELSE "Unloaded"

-----------------------------------------------------------------------------
(* Object generator (generateObjectsForChunk).  Random numbers are k/RngMod, *)
(* coordinates are integers in units of 1/Scale of a world unit.             *)

RngStates == RngMod * RngMod
Scale == RngMod * 2      \* divisible by every grid size used (1 and 2)

\* the seeded generator: rngNext is one call of rng(), rngValue what it returned
prng_alea(seedKey) == seedKey % RngStates
rngNext(s) == (13 * s + 7) % RngStates
rngValue(s) == s \div RngMod

\* the random function handed to createNoise2D: a hash of worldConfig.SEED
noiseSeed == (genSeed * 31) % 17

\* stand-in for the simplex noise of the world seed: a fixed function of the position
noise2D(a, b) ==
    LET x == a + noiseSeed
    IN ((x * x + 3 * x * b + 5 * b * b + 7 * x + 11 * b) % 17) - 8

GenConfig(cfg) ==
    IF cfg = "forest" THEN
        [OBJECT_TYPES |-> <<
            [type |-> "rock_small", densityNum |-> 3, densityDen |-> 64, minDistance |-> 3,
             randomRotationY |-> TRUE, collidable |-> TRUE, maxPlacementAttempts |-> 4],
            [type |-> "coin", densityNum |-> 3, densityDen |-> 64, minDistance |-> 1,
             randomRotationY |-> FALSE, collidable |-> FALSE, maxPlacementAttempts |-> 4]>>,
         NOISE_FREQUENCY |-> 3, NOISE_AMPLITUDE |-> 2,
         ENEMY_TYPES |-> <<"bear", "squirrel">>,
         ENEMY_SPAWN_DENSITY |-> [num |-> 2, den |-> 64],
         ENEMY_PROPERTIES |-> [bear |-> [minDistance |-> 4, maxPlacementAttempts |-> 4],
                               squirrel |-> [minDistance |-> 2, maxPlacementAttempts |-> 2]]]
    ELSE
        [OBJECT_TYPES |-> <<
            [type |-> "cactus_saguaro", densityNum |-> 4, densityDen |-> 64, minDistance |-> 2,
             randomRotationY |-> TRUE, collidable |-> TRUE, maxPlacementAttempts |-> 4]>>,
         NOISE_FREQUENCY |-> 2, NOISE_AMPLITUDE |-> 3,
         ENEMY_TYPES |-> <<"coyote", "scorpion">>,
         ENEMY_SPAWN_DENSITY |-> [num |-> 3, den |-> 64],
         ENEMY_PROPERTIES |-> [coyote |-> [minDistance |-> 3, maxPlacementAttempts |-> 4]]]

CeilSqrt(n) == CHOOSE g \in 0..n : g * g >= n /\ (g = 0 \/ (g - 1) * (g - 1) < n)

playerSpawnPoint == [x |-> 0, z |-> 5]

RequiredDistSq_own(minDistance, existingObject) == minDistance * minDistance

RequiredDistSq(minDistance, existingObject) ==
    IF minDistance * minDistance >= existingObject.minDistance * existingObject.minDistance
    THEN minDistance * minDistance
    ELSE existingObject.minDistance * existingObject.minDistance

\* the check of the distance to the player spawn (lines 127-132)
NearSpawn(worldX, worldZ) ==
    LET dxSpawn == worldX - playerSpawnPoint.x * Scale
        dzSpawn == worldZ - playerSpawnPoint.z * Scale
    IN dxSpawn * dxSpawn + dzSpawn * dzSpawn
          < PLAYER_SPAWN_SAFE_RADIUS * PLAYER_SPAWN_SAFE_RADIUS * Scale * Scale

isPositionValid_noSpawn(worldX, worldZ, minDistance, chunkObjectsData) ==
    \A k \in 1..Len(chunkObjectsData) :
        LET dx == worldX - chunkObjectsData[k].x
            dz == worldZ - chunkObjectsData[k].z
        IN ~(dx * dx + dz * dz
               < RequiredDistSq(minDistance, chunkObjectsData[k]) * Scale * Scale)

isPositionValid(worldX, worldZ, minDistance, chunkObjectsData) ==
    /\ ~NearSpawn(worldX, worldZ)
    /\ \A k \in 1..Len(chunkObjectsData) :
          LET dx == worldX - chunkObjectsData[k].x
              dz == worldZ - chunkObjectsData[k].z
          IN ~(dx * dx + dz * dz
                 < RequiredDistSq(minDistance, chunkObjectsData[k]) * Scale * Scale)

GridPoints(gridSize) ==
    [k \in 1..(gridSize * gridSize) |-> [i |-> (k - 1) \div gridSize, j |-> (k - 1) % gridSize]]

\* Fisher-Yates: i runs from the last position down to the second
RECURSIVE Shuffle(_, _, _)
Shuffle(points, i, s) ==
    IF i <= 1 THEN [points |-> points, s |-> s]
    ELSE LET s1 == rngNext(s)
             j == (rngValue(s1) * i) \div RngMod + 1
         IN Shuffle([points EXCEPT ![i] = points[j], ![j] = points[i]], i - 1, s1)

\* tried: the candidates examined; nearSpawn: those of them inside the spawn radius
RECURSIVE TryPoints(_, _, _, _, _, _, _, _, _)
TryPoints(points, k, s, chunkOffsetX, chunkOffsetZ, minDistance, chunkObjectsData, gridSize, nearSpawn) ==
    IF k > Len(points)
    THEN [found |-> FALSE, worldX |-> 0, worldZ |-> 0, s |-> s, tried |-> k - 1,
          nearSpawn |-> nearSpawn]
    ELSE LET s1 == rngNext(s)
             s2 == rngNext(s1)
             half == (CHUNK_SIZE \div 2) * Scale
             relativeX == ((points[k].i * RngMod + rngValue(s1)) * CHUNK_SIZE * 2) \div gridSize
                          - half
             relativeZ == ((points[k].j * RngMod + rngValue(s2)) * CHUNK_SIZE * 2) \div gridSize
                          - half
             worldX == relativeX + chunkOffsetX
             worldZ == relativeZ + chunkOffsetZ
         IN IF isPositionValid(worldX, worldZ, minDistance, chunkObjectsData)
            THEN [found |-> TRUE, worldX |-> worldX, worldZ |-> worldZ, s |-> s2,
                  tried |-> k, nearSpawn |-> nearSpawn]
            ELSE TryPoints(points, k + 1, s2, chunkOffsetX, chunkOffsetZ, minDistance,
                           chunkObjectsData, gridSize,
                           IF NearSpawn(worldX, worldZ) THEN nearSpawn + 1 ELSE nearSpawn)

\* the result, with the grid and the visit order the call used
TryShuffled(sh, gridSize, chunkOffsetX, chunkOffsetZ, minDistance, chunkObjectsData, maxAttempts) ==
    TryPoints(sh.points, 1, sh.s, chunkOffsetX, chunkOffsetZ, minDistance,
              chunkObjectsData, gridSize, 0)
    @@ [gridSize |-> gridSize, cells |-> sh.points, maxAttempts |-> maxAttempts]

findValidPosition(s, chunkOffsetX, chunkOffsetZ, minDistance, chunkObjectsData, maxAttempts) ==
    TryShuffled(Shuffle(GridPoints(CeilSqrt(maxAttempts)),
                        CeilSqrt(maxAttempts) * CeilSqrt(maxAttempts), s),
                CeilSqrt(maxAttempts), chunkOffsetX, chunkOffsetZ, minDistance,
                chunkObjectsData, maxAttempts)

\* the trace of one findValidPosition call, kept with the result of the generator call
Placement(fp, type) ==
    [type |-> type, maxAttempts |-> fp.maxAttempts, gridSize |-> fp.gridSize,
     cells |-> fp.cells, tried |-> fp.tried, nearSpawn |-> fp.nearSpawn, found |-> fp.found,
     x |-> fp.worldX, z |-> fp.worldZ]

\* the count randomized over 0.8 to 2.2 times the average
NumObjects_wide(density, u) ==
    (CHUNK_SIZE * CHUNK_SIZE * density.num * (8 * RngMod + 14 * u)) \div (density.den * 10 * RngMod)

\* Math.floor(average * (0.8 + rng() * 0.4)), average = chunkArea * density
NumObjects(density, u) ==
    (CHUNK_SIZE * CHUNK_SIZE * density.num * (8 * RngMod + 4 * u)) \div (density.den * 10 * RngMod)

\* the body of the placement loop once findValidPosition has returned fp
PlaceObjectAt(g, objectType, fp) ==
    LET s1 == rngNext(fp.s)
        s2 == IF objectType.randomRotationY THEN rngNext(s1) ELSE s1
        g1 == [g EXCEPT !.placements = Append(@, Placement(fp, objectType.type))]
    IN IF fp.found
       THEN [g1 EXCEPT !.s = s2,
             !.data = Append(g.data,
                 [x |-> fp.worldX, z |-> fp.worldZ, y |-> noise2D(fp.worldX, fp.worldZ),
                  type |-> objectType.type, scale |-> rngValue(s1),
                  rotationY |-> IF objectType.randomRotationY THEN rngValue(s2) ELSE 0,
                  collected |-> FALSE, collidable |-> objectType.collidable,
                  minDistance |-> objectType.minDistance, enemy |-> FALSE])]
       ELSE [g1 EXCEPT !.s = fp.s, !.skipped = @ + 1]

PlaceObject(g, objectType, chunkOffsetX, chunkOffsetZ) ==
    PlaceObjectAt(g, objectType,
                  findValidPosition(g.s, chunkOffsetX, chunkOffsetZ, objectType.minDistance,
                                    g.data, objectType.maxPlacementAttempts))

\* the placement loop ended by the first placement that finds no position
RECURSIVE PlaceObjects_stopAtSkip(_, _, _, _, _)
PlaceObjects_stopAtSkip(g, objectType, n, chunkOffsetX, chunkOffsetZ) ==
    IF n <= 0 \/ g.skipped > 0 THEN g
    ELSE PlaceObjects_stopAtSkip(PlaceObject(g, objectType, chunkOffsetX, chunkOffsetZ),
                                 objectType, n - 1, chunkOffsetX, chunkOffsetZ)

RECURSIVE PlaceObjects(_, _, _, _, _)
PlaceObjects(g, objectType, n, chunkOffsetX, chunkOffsetZ) ==
    IF n <= 0 THEN g
    ELSE PlaceObjects(PlaceObject(g, objectType, chunkOffsetX, chunkOffsetZ), objectType,
                      n - 1, chunkOffsetX, chunkOffsetZ)

RECURSIVE GenerateObjects(_, _, _, _, _)
GenerateObjects(g, objectTypes, t, chunkOffsetX, chunkOffsetZ) ==
    IF t > Len(objectTypes) THEN g
    ELSE LET s1 == rngNext(g.s)
             numObjects == NumObjects([num |-> objectTypes[t].densityNum,
                                       den |-> objectTypes[t].densityDen], rngValue(s1))
         IN GenerateObjects(PlaceObjects([g EXCEPT !.s = s1, !.planned = @ + numObjects],
                                         objectTypes[t], numObjects,
                                         chunkOffsetX, chunkOffsetZ),
                            objectTypes, t + 1, chunkOffsetX, chunkOffsetZ)

\* the body of the enemy loop once findValidPosition has returned fp
PlaceEnemyAt(g, chosenType, properties, fp) ==
    LET s2 == rngNext(fp.s)
        g1 == [g EXCEPT !.placements = Append(@, Placement(fp, chosenType))]
    IN IF fp.found
       THEN [g1 EXCEPT !.s = s2,
             !.data = Append(g.data,
                 [x |-> fp.worldX, z |-> fp.worldZ, y |-> noise2D(fp.worldX, fp.worldZ),
                  type |-> chosenType, scale |-> RngMod, rotationY |-> rngValue(s2),
                  collected |-> FALSE, collidable |-> TRUE,
                  minDistance |-> properties.minDistance, enemy |-> TRUE])]
       ELSE [g1 EXCEPT !.s = fp.s, !.skipped = @ + 1]

PlaceEnemy(g, config, chunkOffsetX, chunkOffsetZ) ==
    LET s1 == rngNext(g.s)
        chosenType == config.ENEMY_TYPES[(rngValue(s1) * Len(config.ENEMY_TYPES)) \div RngMod + 1]
    IN IF chosenType \notin DOMAIN config.ENEMY_PROPERTIES
       THEN [g EXCEPT !.s = s1, !.missing = @ + 1]
       ELSE LET properties == config.ENEMY_PROPERTIES[chosenType]
            IN PlaceEnemyAt(g, chosenType, properties,
                            findValidPosition(s1, chunkOffsetX, chunkOffsetZ,
                                              properties.minDistance, g.data,
                                              properties.maxPlacementAttempts))

RECURSIVE PlaceEnemies(_, _, _, _, _)
PlaceEnemies(g, config, n, chunkOffsetX, chunkOffsetZ) ==
    IF n <= 0 THEN g
    ELSE PlaceEnemies(PlaceEnemy(g, config, chunkOffsetX, chunkOffsetZ), config, n - 1,
                      chunkOffsetX, chunkOffsetZ)

\* call: the arguments (chunkX, chunkZ, level) and what the call can see of its
\* surroundings (the world seed, the number of earlier calls)
chunkSeed_perCall(call) == call.seed * 31 + call.chunkX * 17 + call.chunkZ * 7 + call.calls

chunkSeed(call) == call.seed * 31 + call.chunkX * 17 + call.chunkZ * 7

\* the enemy part of generateObjectsForChunk, after the object loops have left g1
GenerateEnemies(g1, config, chunkOffsetX, chunkOffsetZ) ==
    LET s1 == rngNext(g1.s)
        numEnemiesToAttempt == NumObjects(config.ENEMY_SPAWN_DENSITY, rngValue(s1))
    IN IF Len(config.ENEMY_TYPES) > 0
       THEN PlaceEnemies([g1 EXCEPT !.s = s1, !.planned = @ + numEnemiesToAttempt],
                         config, numEnemiesToAttempt, chunkOffsetX, chunkOffsetZ)
       ELSE g1

\* skipped: the warnings logged for placements that found no position; planned: the
\* placements the loops were to make; missing: the enemies without properties
Returned(g2) ==
    [entries |-> g2.data, skipped |-> g2.skipped, planned |-> g2.planned,
     missing |-> g2.missing, placements |-> g2.placements]

generateObjectsForChunk(call) ==
    LET config == GenConfig(call.level)
        chunkOffsetX == call.chunkX * CHUNK_SIZE * Scale
        chunkOffsetZ == call.chunkZ * CHUNK_SIZE * Scale
        g0 == [s |-> prng_alea(chunkSeed(call)), skipped |-> 0, data |-> << >>,
               planned |-> 0, missing |-> 0, placements |-> << >>]
    IN Returned(GenerateEnemies(
           GenerateObjects(g0, config.OBJECT_TYPES, 1, chunkOffsetX, chunkOffsetZ),
           config, chunkOffsetX, chunkOffsetZ))

-----------------------------------------------------------------------------
(* The object generator called for chunks in any order *)

\* what the model keeps of a call that returned res
Generated(key, res) ==
    /\ genLast' = [key |-> key] @@ res
    /\ genFirst' = [genFirst EXCEPT ![key] =
                      IF @.calls = 0
                      THEN [entries |-> res.entries, skipped |-> res.skipped, calls |-> 1]
                      ELSE [@ EXCEPT !.calls = 2]]

Generate(key) ==
    /\ genCalls < MaxCalls
    /\ Generated(key, generateObjectsForChunk([seed |-> genSeed, chunkX |-> key[1][1],
                          chunkZ |-> key[1][2], level |-> key[2], calls |-> genCalls]))
    /\ genPrev' = genLast.key
    /\ genCalls' = genCalls + 1
    /\ UNCHANGED <<genSeed, worldVars, terrainVars, synthVars, poolVars, loadVars, flowVars, auxVars>>

WorldIdle ==
    /\ InitWorld
    /\ renderDistance = 0
    /\ levelConfig = "empty"

InitPopulate ==
    /\ WorldIdle
    /\ TerrainIdle
    /\ genSeed \in 1..MaxSeed
    /\ genCalls = 0
    /\ genPrev = << >>
    /\ genLast = NoGen
    /\ genFirst = [k \in GenKeys |-> NoFirst]

NextPopulate == \E key \in GenKeys : Generate(key)

SpecPopulate == InitPopulate /\ [][NextPopulate]_vars

\* C8: in the list a call returned, any two entries (objects and enemies alike) are at
\* a horizontal distance of at least the larger of their two minimum distances.
SpacingRespected ==
    \A i, j \in 1..Len(genLast.entries) :
        i < j =>
            LET a == genLast.entries[i]
                b == genLast.entries[j]
                m == IF a.minDistance >= b.minDistance THEN a.minDistance ELSE b.minDistance
            IN (a.x - b.x) * (a.x - b.x) + (a.z - b.z) * (a.z - b.z) >= m * m * Scale * Scale

\* a call placed an enemy after objects and had to skip a placement on exhaustion
SpacedWithSkip ==
    /\ genLast.skipped > 0
    /\ Len(genLast.entries) >= 3
    /\ \E i, j \in 1..Len(genLast.entries) :
          /\ genLast.entries[i].enemy /\ ~genLast.entries[j].enemy
          /\ genLast.entries[i].minDistance # genLast.entries[j].minDistance

-----------------------------------------------------------------------------
(* Terrain generator (createTerrainChunk with detail bands).  Horizontal     *)
(* coordinates are in units of 1/FineUnits of a chunk side; a mesh of n     *)
(* segments has (n + 1) * (n + 1) vertices, vertex iy * (n + 1) + ix at      *)
(* column ix (x) and row iy (z), row 0 on the north edge.                    *)

LOD_LEVELS == <<32, 16, 8, 4>>
FineUnits == LOD_LEVELS[1]
LodChoices == {LOD_LEVELS[k] : k \in 2..4}

TerrainConfig == [NOISE_FREQUENCY |-> 3, NOISE_AMPLITUDE |-> 2]

HeightAt_carry(chunkX, chunkZ, config, segments, ix, iy) ==
    LET worldX == ix * (FineUnits \div segments) - FineUnits \div 2 + chunkX * FineUnits
        worldZ == iy * (FineUnits \div segments) - FineUnits \div 2 + chunkZ * FineUnits
    IN noise2D(worldX * config.NOISE_FREQUENCY, worldZ * config.NOISE_FREQUENCY)
       * config.NOISE_AMPLITUDE + (IF synthLast = NoSynth THEN 0 ELSE 1)

HeightAt(chunkX, chunkZ, config, segments, ix, iy) ==
    LET worldX == ix * (FineUnits \div segments) - FineUnits \div 2 + chunkX * FineUnits
        worldZ == iy * (FineUnits \div segments) - FineUnits \div 2 + chunkZ * FineUnits
    IN noise2D(worldX * config.NOISE_FREQUENCY, worldZ * config.NOISE_FREQUENCY)
       * config.NOISE_AMPLITUDE

EdgeIndex(edge, i, segments) ==
    CASE edge = "north" -> i
      [] edge = "south" -> segments * (segments + 1) + i
      [] edge = "east" -> (i + 1) * (segments + 1) - 1
      [] edge = "west" -> i * (segments + 1)

\* column and row of the i-th vertex of an edge: the x and z the stitch computes
EdgeColumn(edge, i, segments) ==
    CASE edge = "north" -> i  [] edge = "south" -> i
      [] edge = "east" -> segments  [] edge = "west" -> 0

EdgeRow(edge, i, segments) ==
    CASE edge = "north" -> 0  [] edge = "south" -> segments
      [] edge = "east" -> i  [] edge = "west" -> i

\* the height the stitch writes at the i-th vertex of an edge
StitchHeight(chunkX, chunkZ, config, segments, edge, i) ==
    HeightAt(chunkX, chunkZ, config, segments,
             EdgeColumn(edge, i, segments), EdgeRow(edge, i, segments))

stitchEdge(heights, currentLOD, neighborLOD, edge, chunkX, chunkZ, config) ==
    IF currentLOD <= neighborLOD THEN heights
    ELSE LET every == currentLOD \div neighborLOD
             stitched == {i \in 0..currentLOD : i % every # 0}
         IN [idx \in DOMAIN heights |->
                IF \E i \in stitched : EdgeIndex(edge, i, currentLOD) = idx
                THEN LET i == CHOOSE k \in stitched : EdgeIndex(edge, k, currentLOD) = idx
                     IN StitchHeight(chunkX, chunkZ, config, currentLOD, edge, i)
                ELSE heights[idx]]

stitchTerrainEdges(heights, currentLOD, neighborLODs, chunkX, chunkZ, config) ==
    LET n == stitchEdge(heights, currentLOD, neighborLODs.north, "north", chunkX, chunkZ, config)
        ns == stitchEdge(n, currentLOD, neighborLODs.south, "south", chunkX, chunkZ, config)
        e == stitchEdge(ns, currentLOD, neighborLODs.east, "east", chunkX, chunkZ, config)
    IN stitchEdge(e, currentLOD, neighborLODs.west, "west", chunkX, chunkZ, config)

\* the lod argument as a JavaScript value: a number, or undefined
JsNumber(n) == [number |-> TRUE, value |-> n]
JsUndefined == [number |-> FALSE, value |-> 0]

\* line 41: typeof lod === 'number' && lod > 0
ValidLod(lod) == lod.number /\ lod.value > 0

\* the neighborLODs argument: an object with the four bands, or undefined
AllNeighbors(n) == [defined |-> TRUE, north |-> n, south |-> n, east |-> n, west |-> n]
NoNeighbors == [defined |-> FALSE, north |-> 0, south |-> 0, east |-> 0, west |-> 0]

\* The stitch is called with the lod as received (line 74).  On an invalid lod it
\* writes nothing: a number <= 0 is <= every band (line 99), undefined makes the loop
\* bound undefined (line 102).  Reading neighborLODs.north of undefined throws (line 138).
createTerrainChunk(chunkX, chunkZ, config, lod, neighborLODs) ==
    LET segments == IF ValidLod(lod) THEN lod.value ELSE LOD_LEVELS[1]
        heights == [idx \in 0..((segments + 1) * (segments + 1) - 1) |->
                       HeightAt(chunkX, chunkZ, config, segments,
                                idx % (segments + 1), idx \div (segments + 1))]
    IN IF ~neighborLODs.defined
       THEN [built |-> FALSE, thrown |-> TRUE, logged |-> ~ValidLod(lod)]
       ELSE [built |-> TRUE, thrown |-> FALSE, logged |-> ~ValidLod(lod),
             segments |-> segments,
             heights |-> IF ValidLod(lod)
                         THEN stitchTerrainEdges(heights, lod.value, neighborLODs,
                                                 chunkX, chunkZ, config)
                         ELSE heights]

\* the detail band of the neighbour across an edge (the chunk's own beyond the model)
NeighborLOD(c, dx, dz) ==
    IF <<c[1] + dx, c[2] + dz>> \in TerrainChunks
    THEN terrainLOD[<<c[1] + dx, c[2] + dz>>] ELSE terrainLOD[c]

NeighborLODs(c) ==
    [defined |-> TRUE, north |-> NeighborLOD(c, 0, -1), south |-> NeighborLOD(c, 0, 1),
     east |-> NeighborLOD(c, 1, 0), west |-> NeighborLOD(c, -1, 0)]

BuildTerrain(c) ==
    /\ ~terrainMeshes[c].built
    /\ terrainMeshes' = [terrainMeshes EXCEPT ![c] =
          createTerrainChunk(c[1], c[2], TerrainConfig, JsNumber(terrainLOD[c]),
                             NeighborLODs(c))]
    /\ UNCHANGED <<terrainLOD, worldVars, genVars, synthVars, poolVars, loadVars, flowVars, auxVars>>

DisposeTerrain(c) ==
    /\ terrainMeshes[c].built
    /\ terrainMeshes' = [terrainMeshes EXCEPT ![c] = NoMesh]
    /\ UNCHANGED <<terrainLOD, worldVars, genVars, synthVars, poolVars, loadVars, flowVars, auxVars>>

InitTerrain ==
    /\ WorldIdle
    /\ GenIdle
    /\ terrainLOD \in [TerrainChunks -> LodChoices]
    /\ terrainMeshes = [c \in TerrainChunks |-> NoMesh]
    /\ SynthIdle
    /\ LoadIdle
    /\ FlowIdle
    /\ AuxIdle
    /\ PoolIdle

NextTerrain ==
    \/ \E c \in TerrainChunks : BuildTerrain(c)
    \/ \E c \in TerrainChunks : DisposeTerrain(c)

SpecTerrain == InitTerrain /\ [][NextTerrain]_vars

\* FineUnits times the height of a mesh at position p (0..FineUnits) along an edge:
\* the mesh is straight between the two edge vertices around p
EdgeHeight(mesh, edge, p) ==
    LET step == FineUnits \div mesh.segments
        j == p \div step
        rem == p % step
        h0 == mesh.heights[EdgeIndex(edge, j, mesh.segments)]
        h1 == IF rem = 0 THEN h0 ELSE mesh.heights[EdgeIndex(edge, j + 1, mesh.segments)]
    IN (h0 * (step - rem) + h1 * rem) * mesh.segments

SharedEdgesAgree(a, b, edgeA, edgeB) ==
    (terrainMeshes[a].built /\ terrainMeshes[b].built
     /\ terrainMeshes[a].segments # terrainMeshes[b].segments) =>
        \A p \in 0..FineUnits :
            EdgeHeight(terrainMeshes[a], edgeA, p) = EdgeHeight(terrainMeshes[b], edgeB, p)

\* C10: two adjacent built chunks of different detail bands have equal heights at
\* every position of their shared boundary.
BoundaryHeightsEqual ==
    \A a, b \in TerrainChunks :
        /\ (b = <<a[1] + 1, a[2]>>) => SharedEdgesAgree(a, b, "east", "west")
        /\ (b = <<a[1], a[2] + 1>>) => SharedEdgesAgree(a, b, "south", "north")

-----------------------------------------------------------------------------
(* createTerrainChunk called twice with any arguments, then the terrain discarded *)

SynthLevels == {"forest", "desert"}
SynthChunks == {<<0, 0>>, <<1, 0>>}
SynthLods == {JsNumber(LOD_LEVELS[3]), JsNumber(LOD_LEVELS[4]), JsNumber(0),
              JsNumber(0 - LOD_LEVELS[4]), JsUndefined}
SynthNeighbors == {AllNeighbors(LOD_LEVELS[3]), AllNeighbors(LOD_LEVELS[4]), NoNeighbors}

Synthesize(level, c, lod, neighborLODs) ==
    /\ synthPrev = NoSynth
    /\ synthLast' = [called |-> TRUE, level |-> level, chunk |-> c, lod |-> lod,
                     neighborLODs |-> neighborLODs,
                     mesh |-> createTerrainChunk(c[1], c[2], GenConfig(level), lod,
                                                 neighborLODs)]
    /\ synthPrev' = synthLast
    /\ UNCHANGED <<worldVars, genVars, terrainVars, poolVars, loadVars, flowVars, auxVars>>

DiscardTerrain ==
    /\ synthLast # NoSynth
    /\ synthLast' = NoSynth
    /\ synthPrev' = NoSynth
    /\ UNCHANGED <<worldVars, genVars, terrainVars, poolVars, loadVars, flowVars, auxVars>>

InitSynth ==
    /\ WorldIdle
    /\ TerrainIdle
    /\ genSeed \in 1..MaxSeed
    /\ genCalls = 0
    /\ genPrev = << >>
    /\ genLast = NoGen
    /\ genFirst = [k \in GenKeys |-> NoFirst]

NextSynth ==
    \/ \E level \in SynthLevels, c \in SynthChunks, lod \in SynthLods,
          neighborLODs \in SynthNeighbors : Synthesize(level, c, lod, neighborLODs)
    \/ DiscardTerrain

SpecSynth == InitSynth /\ [][NextSynth]_vars

BothCalled == synthPrev # NoSynth /\ synthLast # NoSynth

InvalidLodFallsBack ==
    (synthLast # NoSynth /\ ~ValidLod(synthLast.lod)) =>
        /\ ~synthLast.mesh.thrown
        /\ synthLast.mesh.built
        /\ synthLast.mesh.logged
        /\ synthLast.mesh.segments = LOD_LEVELS[1]

-----------------------------------------------------------------------------
(* The pool manager called by its users: getFromPool, addToPool, and the     *)
(* construction of an entity when the pool had none                          *)

PoolCallNames == {"obstacles", "tumbleweeds"}
PoolCallTypes == {"", "rock_small", "log_fallen"}
FreshTypes == {"log_fallen", "tumbleweed"}

\* pools after a long run: rocks and logs returned in turn
PooledType(i) == IF i % 2 = 1 THEN "rock_small" ELSE "log_fallen"
PoolFills == {0, 3, maxPoolSize - 1, maxPoolSize}

\* the special handling of log_fallen objects (lines 50-55, 67-72 and 100-107):
\* rotation.x = Math.PI / 2
RestRotation_keeps(rotated, object, objectType) == rotated

RestRotation(rotated, object, objectType) ==
    IF objectType = "log_fallen" THEN rotated \ {object} ELSE rotated

GetFromPool(poolName, objectType) ==
    /\ poolOps < MaxPoolOps
    /\ LET g == getFromPool(pools, entityType, poolName, objectType)
       IN /\ pools' = g.pools
          /\ tilted' = IF g.object = NULL THEN tilted
                       ELSE RestRotation(tilted, g.object,
                                         IF objectType # "" THEN objectType
                                         ELSE entityType[g.object])
          /\ held' = IF g.object = NULL THEN held ELSE held \cup {g.object}
          /\ lastPoolOp' = [op |-> "borrow", pool |-> poolName, type |-> objectType,
                            object |-> g.object]
    /\ poolOps' = poolOps + 1
    /\ UNCHANGED <<disposed, wasTilted, entityType, gameState, renderDistance, levelConfig,
                   lastCameraChunk, chunkState, loadedChunks, transitions, spatialGrid,
                   activeEnemies, pendingTrees, lateTrees, lastCollect>>
    /\ UNCHANGED <<genVars, terrainVars, synthVars, loadVars, flowVars, auxVars>>

\* lines 124-128: what leaves the pool in addToPool is disposed
AddToPool(poolName, object) ==
    /\ poolOps < MaxPoolOps
    /\ object \in held \cup {NULL}
    /\ pools' = addToPool(pools, poolName, object)
    /\ disposed' = disposed \cup ((IF poolName \in DOMAIN pools THEN SeqToSet(pools[poolName])
                                   ELSE {}) \ SeqToSet(pools'[poolName]))
    /\ held' = held \ {object}
    /\ tilted' = IF object = NULL THEN tilted
                 ELSE RestRotation(tilted, object, entityType[object])
    /\ lastPoolOp' = [op |-> "return", pool |-> poolName, type |-> "", object |-> object]
    /\ poolOps' = poolOps + 1
    /\ UNCHANGED <<wasTilted, entityType, gameState, renderDistance, levelConfig,
                   lastCameraChunk, chunkState, loadedChunks, transitions, spatialGrid,
                   activeEnemies, pendingTrees, lateTrees, lastCollect>>
    /\ UNCHANGED <<genVars, terrainVars, synthVars, loadVars, flowVars, auxVars>>

\* the pool had no entity for the caller: it constructs one
ConstructEntity(type) ==
    /\ held = {}
    /\ entityType' = Append(entityType, type)
    /\ held' = {Len(entityType) + 1}
    /\ lastPoolOp' = NoPoolOp
    /\ UNCHANGED <<disposed, poolOps, tilted, wasTilted, pools, gameState, renderDistance, levelConfig,
                   lastCameraChunk, chunkState, loadedChunks, transitions, spatialGrid,
                   activeEnemies, pendingTrees, lateTrees, lastCollect>>
    /\ UNCHANGED <<genVars, terrainVars, synthVars, loadVars, flowVars, auxVars>>

PoolsFilled(fills) ==
    /\ gameState = "PLAYING"
    /\ renderDistance = 0
    /\ levelConfig = "level1"
    /\ lastCameraChunk = NoRegion
    /\ chunkState = [r \in Regions |-> "Unloaded"]
    /\ loadedChunks = [r \in Regions |-> NoChunk]
    /\ transitions = {}
    /\ spatialGrid = {}
    /\ activeEnemies = << >>
    /\ pendingTrees = {}
    /\ lateTrees = {}
    /\ lastCollect = NoCollect
    /\ \E n \in fills :
          /\ pools = [p \in PoolNames |-> IF p = "obstacles" THEN [i \in 1..n |-> i]
                                          ELSE << >>]
          /\ entityType = [i \in 1..n |-> PooledType(i)]
    /\ GenIdle
    /\ terrainLOD = [c \in TerrainChunks |-> 0]
    /\ terrainMeshes = [c \in TerrainChunks |-> NoMesh]
    /\ SynthIdle
    /\ LoadIdle
    /\ FlowIdle
    /\ AuxIdle
    /\ PoolIdle

InitPool == PoolsFilled(PoolFills)

NextPool ==
    \/ \E poolName \in PoolCallNames, objectType \in PoolCallTypes :
          GetFromPool(poolName, objectType)
    \/ \E poolName \in PoolCallNames, object \in held \cup {NULL} :
          AddToPool(poolName, object)
    \/ \E type \in FreshTypes : ConstructEntity(type)

SpecPool == InitPool /\ [][NextPool]_vars

\* C12: no pool ever holds more than maxPoolSize entities; addToPool on a full pool
\* disposes the oldest entity of that pool (the first in) and no other, and appends
\* the returned entity as the newest; on a pool that is not full it only appends.
PoolBoundedFifo ==
    [][/\ \A n \in PoolNames : Len(pools[n]) <= maxPoolSize /\ Len(pools'[n]) <= maxPoolSize
       /\ (poolOps' # poolOps /\ lastPoolOp'.op = "return" /\ lastPoolOp'.object # NULL) =>
             LET n == lastPoolOp'.pool
             IN /\ \A q \in PoolNames \ {n} : pools'[q] = pools[q]
                /\ IF Len(pools[n]) = maxPoolSize
                   THEN /\ pools'[n] = Append(Tail(pools[n]), lastPoolOp'.object)
                        /\ disposed' = disposed \cup {Head(pools[n])}
                   ELSE /\ pools'[n] = Append(pools[n], lastPoolOp'.object)
                        /\ disposed' = disposed]_vars

\* an entity has just been returned to a full pool and the oldest one disposed
EvictedOldest ==
    /\ lastPoolOp.op = "return" /\ lastPoolOp.object # NULL
    /\ disposed = {1}
    /\ Len(pools[lastPoolOp.pool]) = maxPoolSize
    /\ pools[lastPoolOp.pool][maxPoolSize] = lastPoolOp.object
    /\ pools[lastPoolOp.pool][1] = 2

\* position of the most recently returned entity of the type among the first i
\* entities of the pool (any entity when no type is given), 0 if there is none
RECURSIVE MostRecent(_, _, _)
MostRecent(pool, objectType, i) ==
    IF i = 0 THEN 0
    ELSE IF objectType = "" \/ entityType[pool[i]] = objectType THEN i
    ELSE MostRecent(pool, objectType, i - 1)

\* C13: getFromPool without a type returns the last entity of the pool, the one most
\* recently returned; with a type it returns the last entity of that type; the call
\* removes that one entity only and leaves the others in their order; it returns
\* nothing and changes nothing when no entity matches.
BorrowMostRecent ==
    [][(poolOps' # poolOps /\ lastPoolOp'.op = "borrow") =>
          LET n == lastPoolOp'.pool
              i == MostRecent(pools[n], lastPoolOp'.type, Len(pools[n]))
          IN /\ \A q \in PoolNames \ {n} : pools'[q] = pools[q]
             /\ IF i = 0
                THEN lastPoolOp'.object = NULL /\ pools'[n] = pools[n]
                ELSE /\ lastPoolOp'.object = pools[n][i]
                     /\ Len(pools'[n]) = Len(pools[n]) - 1
                     /\ \A j \in 1..Len(pools'[n]) :
                           pools'[n][j] = pools[n][IF j < i THEN j ELSE j + 1]]_vars

\* an entity of a type has just been taken from under a more recent entity of another
\* type, while an older entity of its type stays in the pool
BorrowedByType ==
    /\ lastPoolOp.op = "borrow" /\ lastPoolOp.type # "" /\ lastPoolOp.object # NULL
    /\ LET pool == pools[lastPoolOp.pool]
       IN /\ Len(pool) > 1
          /\ pool[Len(pool)] > lastPoolOp.object
          /\ entityType[pool[Len(pool)]] # lastPoolOp.type
          /\ \E i \in 1..Len(pool) : entityType[pool[i]] = lastPoolOp.type

-----------------------------------------------------------------------------
(* collectObject called with any key and index while the start region loads  *)
(* and is played                                                             *)

\* keys of a loaded region, of a region never loaded and of no region
CollectKeys == {0, 1, MaxRegion + 1}
\* indices from below the first entry to past the last
CollectIndices == (0 - 1)..Len(LevelObjectTypes("level1", 0))

NextCollect ==
    \/ startGame
    \/ loadInitialChunks
    \/ FinishLoading
    \/ \E r \in Regions : ProcessRequested(r)
    \/ \E r \in Regions : CompleteLoad(r)
    \/ \E p \in pendingTrees : TreeResolve(p)
    \/ \E k \in CollectKeys, i \in CollectIndices : CollectObject(k, i)

SpecCollect == Init /\ [][NextCollect]_vars

\* C14: a collectObject call with a key of no loaded region, with an index below 0 or
\* not below the number of entries, or on an entry already collected returns false and
\* changes neither the spatial index, nor the pools, nor any entry, nor the enemies.
RefusedCollectChangesNothing ==
    [][lastCollect' # NoCollect =>
          LET key == lastCollect'.key
              index == lastCollect'.index
          IN (~ValidEntry(key, index) \/ loadedChunks[key].objects[index + 1].collected) =>
                /\ lastCollect'.result = FALSE
                /\ spatialGrid' = spatialGrid
                /\ pools' = pools
                /\ loadedChunks' = loadedChunks
                /\ activeEnemies' = activeEnemies]_vars

\* calls with an index past the last entry of a loaded region holding a collected
\* entry and entities in the index have just been refused
RefusedPastEnd ==
    /\ lastCollect # NoCollect /\ ~lastCollect.result
    /\ lastCollect.key \in Regions /\ loadedChunks[lastCollect.key].loaded
    /\ lastCollect.index = Len(loadedChunks[lastCollect.key].objects)
    /\ \E i \in 1..Len(loadedChunks[lastCollect.key].objects) :
          loadedChunks[lastCollect.key].objects[i].collected
    /\ spatialGrid # {}

-----------------------------------------------------------------------------
(* Exceptions while a region's content is constructed *)

\* at most one constructor throws in one loadContent call
ThrowSets == {{}} \cup {{i} : i \in 1..Len(LevelObjectTypes("level1", 0))}

\* the load of region r is committed while the constructors of the entries in throws
\* throw: an exception loadContent catches costs the entry only, one it lets through
\* ends the region's load
CompleteLoadThrowing(r, throws) ==
    /\ Stepping
    /\ chunkState[r] = "Loading"
    /\ r \in RetentionSet(lastCameraChunk)
    /\ LET wc == loadContent(World, r, loadedChunks[r].objects, levelConfig, throws)
       IN /\ Commit(wc.w)
          /\ lastLoad' = [key |-> r, failures |-> wc.failures, escaped |-> wc.escaped]
          /\ IF wc.escaped
             THEN /\ loadedChunks' = [loadedChunks EXCEPT ![r] = NoChunk]
                  /\ chunkState' = [chunkState EXCEPT ![r] = "Unloaded"]
                  /\ transitions' = {<<"Loading", "Unloaded">>}
             ELSE /\ loadedChunks' = [loadedChunks EXCEPT ![r] = wc.c]
                  /\ chunkState' = [chunkState EXCEPT ![r] = "Resident"]
                  /\ transitions' = {<<"Loading", "Resident">>}
    /\ UNCHANGED <<genVars, terrainVars, synthVars, poolVars, flowVars, auxVars>>
    /\ UNCHANGED <<gameState, renderDistance, levelConfig, lastCameraChunk, lateTrees>>
    /\ lastCollect' = NoCollect

NextThrowing ==
    \/ startGame
    \/ loadInitialChunks
    \/ FinishLoading
    \/ \E x \in {v \in ViewPositions : WorldToChunk(v) >= lastCameraChunk} : Update(x)
    \/ \E r \in Regions : ProcessRequested(r)
    \/ \E r \in Regions, throws \in ThrowSets : CompleteLoadThrowing(r, throws)
    \/ \E r \in Regions : CancelLoad(r)
    \/ \E r \in Regions : ProcessUnloading(r)
    \/ \E p \in pendingTrees : TreeResolve(p)

SpecThrowing == Init /\ [][NextThrowing]_vars

\* C16: a load in which a constructor threw lets no exception out of loadContent and
\* leaves the region Unloaded
FailedLoadAbandoned ==
    [][(lastLoad' # lastLoad /\ lastLoad'.failures > 0)
          => (~lastLoad'.escaped /\ chunkState'[lastLoad'.key] = "Unloaded")]_vars

-----------------------------------------------------------------------------
(* Placement exhaustion, the placement grid and the spawn keep-out zone *)

Exhausted == {k \in DOMAIN genLast.placements : ~genLast.placements[k].found}

\* C17: a placement that finds no valid position in any grid cell is skipped with one
\* logged warning, and the call goes on with the remaining placements and content types
\* and returns its list: every planned placement is made, each exhausted one is a
\* warning and each other one an entry.
SkipContinues ==
    genLast.key # << >> =>
        /\ Len(genLast.placements) + genLast.missing = genLast.planned
        /\ genLast.skipped = Cardinality(Exhausted)
        /\ Len(genLast.entries) = Len(genLast.placements) - Cardinality(Exhausted)
        /\ \A k \in Exhausted :
              genLast.placements[k].tried = Len(genLast.placements[k].cells)

\* a placement was skipped and a later placement of the same call was accepted
SkippedThenPlaced ==
    \E k, l \in DOMAIN genLast.placements :
        /\ k < l
        /\ ~genLast.placements[k].found
        /\ genLast.placements[k].tried = Len(genLast.placements[k].cells)
        /\ genLast.placements[l].found

\* C18: each placement visits the cells of a grid of side sqrt(maxAttempts), rounded up,
\* in an order that is a permutation of the cells, draws one candidate per visited cell
\* and examines no more than maxAttempts candidates.
GridWithinBudget ==
    \A k \in DOMAIN genLast.placements :
        LET pl == genLast.placements[k]
        IN /\ pl.gridSize = CeilSqrt(pl.maxAttempts)
           /\ Len(pl.cells) = pl.gridSize * pl.gridSize
           /\ \A i \in 0..(pl.gridSize - 1), j \in 0..(pl.gridSize - 1) :
                 Cardinality({c \in DOMAIN pl.cells : pl.cells[c] = [i |-> i, j |-> j]}) = 1
           /\ pl.tried <= Len(pl.cells)
           /\ pl.tried <= pl.maxAttempts

\* C19: no entry of the list a call returned, object or enemy, is closer to the player
\* spawn point than the safe radius.
SpawnKeptClear ==
    \A i \in DOMAIN genLast.entries :
        LET dx == genLast.entries[i].x - playerSpawnPoint.x * Scale
            dz == genLast.entries[i].z - playerSpawnPoint.z * Scale
            r == PLAYER_SPAWN_SAFE_RADIUS * Scale
        IN dx * dx + dz * dz >= r * r

\* candidates inside the safe radius were turned down and the placement then found a
\* position, for an object and for an enemy of the same call
PlacedAroundSpawn ==
    /\ \E k \in DOMAIN genLast.placements :
          /\ genLast.placements[k].nearSpawn > 0 /\ genLast.placements[k].found
          /\ genLast.placements[k].type \in {"rock_small", "coin", "cactus_saguaro"}
    /\ \E k \in DOMAIN genLast.placements :
          /\ genLast.placements[k].nearSpawn > 0 /\ genLast.placements[k].found
          /\ genLast.placements[k].type \in {"bear", "squirrel", "coyote"}

-----------------------------------------------------------------------------
(* Level change: the score of level 1 reaches the transition score *)

\* LevelManager.unloadCurrentLevel, called by the scoreChanged handler while level 1 is
\* played: clearAllChunks, then removeAllEnemies; the second pass of each finds
\* nothing left
unloadCurrentLevel ==
    /\ gameState = "PLAYING"
    /\ levelConfig = "level1"
    /\ gameState' = "LEVEL_TRANSITION"
    /\ Commit(removeAllEnemies(ClearFrom(World, 0 - MinusRegions)))
    /\ chunkState' = [r \in Regions |-> "Unloaded"]
    /\ loadedChunks' = [r \in Regions |-> NoChunk]
    /\ transitions' = ClearTransitions
    /\ lastCameraChunk' = NoRegion
    /\ lastCollect' = NoCollect
    /\ UNCHANGED <<genVars, terrainVars, synthVars, poolVars, loadVars, flowVars, auxVars>>
    /\ UNCHANGED <<renderDistance, levelConfig, lateTrees>>

\* startGame('level2') after the unload: the index is cleared and _loadLevel runs under
\* the configuration of the next level
startNextLevel ==
    /\ gameState = "LEVEL_TRANSITION"
    /\ gameState' = "LOADING_LEVEL"
    /\ levelConfig' = "level2"
    /\ Commit(ClearFrom(removeAllEnemies([World EXCEPT !.grid = {}]), 0 - MinusRegions))
    /\ chunkState' = [r \in Regions |-> "Unloaded"]
    /\ loadedChunks' = [r \in Regions |-> NoChunk]
    /\ transitions' = ClearTransitions
    /\ lastCameraChunk' = NoRegion
    /\ lastCollect' = NoCollect
    /\ UNCHANGED <<genVars, terrainVars, synthVars, poolVars, loadVars, flowVars, auxVars>>
    /\ UNCHANGED <<renderDistance, lateTrees>>

NextLevel ==
    \/ startGame
    \/ loadInitialChunks
    \/ FinishLoading
    \/ \E x \in {v \in ViewPositions : WorldToChunk(v) >= lastCameraChunk} : Update(x)
    \/ \E r \in Regions : ProcessRequested(r)
    \/ \E r \in Regions : CompleteLoad(r)
    \/ \E r \in Regions : CancelLoad(r)
    \/ \E r \in Regions : ProcessUnloading(r)
    \/ \E p \in pendingTrees : TreeResolve(p)
    \/ unloadCurrentLevel
    \/ startNextLevel

SpecLevel == Init /\ [][NextLevel]_vars

\* a step in which clearAllChunks ran to completion
ClearedAll ==
    /\ gameState' # gameState
    /\ gameState' \in {"LEVEL_TRANSITION", "LOADING_LEVEL"}

-----------------------------------------------------------------------------
(* Number of placements of a content type *)

\* ceil(chunkArea * density * 1.2) and floor(chunkArea * density * 0.8)
MostPlacements(density) ==
    (CHUNK_SIZE * CHUNK_SIZE * density.num * 12 + density.den * 10 - 1) \div (density.den * 10)

FewestPlacements(density) ==
    (CHUNK_SIZE * CHUNK_SIZE * density.num * 8) \div (density.den * 10)

AttemptsOf(types) ==
    Cardinality({k \in DOMAIN genLast.placements : genLast.placements[k].type \in types})

EntriesOf(types) ==
    Cardinality({k \in DOMAIN genLast.entries : genLast.entries[k].type \in types})

\* C21: for each content type of the level (each object type, and the enemies) the
\* number of placements a call attempts lies between the average chunkArea * density
\* less 20% (rounded down) and plus 20% (rounded up), and the number of entries
\* returned for the type is at most that upper bound.
PlacementCountBounded ==
    genLast.key # << >> =>
        LET config == GenConfig(genLast.key[2])
            enemies == MostPlacements(config.ENEMY_SPAWN_DENSITY)
            enemyTypes == {config.ENEMY_TYPES[t] : t \in DOMAIN config.ENEMY_TYPES}
        IN /\ \A t \in DOMAIN config.OBJECT_TYPES :
                 LET objectType == config.OBJECT_TYPES[t]
                     density == [num |-> objectType.densityNum, den |-> objectType.densityDen]
                 IN /\ AttemptsOf({objectType.type}) >= FewestPlacements(density)
                    /\ AttemptsOf({objectType.type}) <= MostPlacements(density)
                    /\ EntriesOf({objectType.type}) <= AttemptsOf({objectType.type})
           /\ AttemptsOf(enemyTypes) + genLast.missing
                 >= FewestPlacements(config.ENEMY_SPAWN_DENSITY)
           /\ AttemptsOf(enemyTypes) + genLast.missing <= enemies
           /\ EntriesOf(enemyTypes) <= AttemptsOf(enemyTypes)

\* a call attempted more placements of one object type than of another of the same
\* density, and the enemies were attempted too
CountsRandomized ==
    /\ genLast.key # << >>
    /\ genLast.key[2] = "forest"
    /\ AttemptsOf({"rock_small"}) # AttemptsOf({"coin"})
    /\ AttemptsOf({"bear", "squirrel"}) > 0

-----------------------------------------------------------------------------
(* The entries of a region while it is loaded, collected from and unloaded *)

InitEntry ==
    /\ InitWorld
    /\ renderDistance = 0
    /\ levelConfig = "level2"
    /\ GenIdle
    /\ TerrainIdle

NextEntry ==
    \/ startGame
    \/ loadInitialChunks
    \/ FinishLoading
    \/ \E x \in {v \in ViewPositions : WorldToChunk(v) >= lastCameraChunk} : Update(x)
    \/ \E r \in Regions : ProcessRequested(r)
    \/ \E r \in Regions : CompleteLoad(r)
    \/ \E r \in Regions : CancelLoad(r)
    \/ \E r \in Regions : ProcessUnloading(r)
    \/ \E k \in 0..MaxView, i \in 0..1 : CollectObject(k, i)

SpecEntry == InitEntry /\ [][NextEntry]_vars

PlacementFields(object) ==
    [type |-> object.type, y |-> object.y, collidable |-> object.collidable,
     isDynamic |-> object.isDynamic]

\* C22: while a region's record exists, no step (load, collection, start of the unload)
\* alters the placement fields of its entries.
PlacementFieldsKept ==
    [][\A r \in Regions :
          (loadedChunks[r].loaded /\ loadedChunks'[r].loaded) =>
              \A i \in DOMAIN loadedChunks[r].objects :
                  PlacementFields(loadedChunks'[r].objects[i])
                     = PlacementFields(loadedChunks[r].objects[i])]_vars

-----------------------------------------------------------------------------
(* The pool manager called with any pool name, on entities rotated while active *)

AnyPoolNames == PoolCallNames \cup {"projectiles"}
LogFills == {0, 3}

\* something rotates an entity while a caller holds it
TiltHeld(object) ==
    /\ object \in held \ tilted
    /\ tilted' = tilted \cup {object}
    /\ wasTilted' = wasTilted \cup {object}
    /\ lastPoolOp' = NoPoolOp
    /\ UNCHANGED <<held, disposed, poolOps, pools, entityType, gameState, renderDistance,
                   levelConfig, lastCameraChunk, chunkState, loadedChunks, transitions,
                   spatialGrid, activeEnemies, pendingTrees, lateTrees, lastCollect>>
    /\ UNCHANGED <<genVars, terrainVars, synthVars, loadVars, flowVars, auxVars>>

InitPoolAny == PoolsFilled(LogFills)

NextPoolAny ==
    \/ \E poolName \in AnyPoolNames, objectType \in PoolCallTypes :
          GetFromPool(poolName, objectType)
    \/ \E poolName \in AnyPoolNames, object \in held \cup {NULL} :
          AddToPool(poolName, object)
    \/ \E type \in FreshTypes : ConstructEntity(type)
    \/ \E object \in held : TiltHeld(object)

SpecPoolAny == InitPoolAny /\ [][NextPoolAny]_vars

\* C23: every log_fallen entity getFromPool hands out, with or without a type argument,
\* has the resting rotation, whatever rotation it had while it was held or when it
\* was returned.
BorrowedLogRests ==
    [][(poolOps' # poolOps /\ lastPoolOp'.op = "borrow" /\ lastPoolOp'.object # NULL
        /\ entityType[lastPoolOp'.object] = "log_fallen")
          => lastPoolOp'.object \notin tilted']_vars

\* a log that was rotated while held has been returned and handed out again, by a call
\* without a type argument
TiltedLogBorrowed ==
    /\ lastPoolOp.op = "borrow"
    /\ lastPoolOp.type = ""
    /\ lastPoolOp.object \in wasTilted
    /\ entityType[lastPoolOp.object] = "log_fallen"

\* C24: the pool manager holds exactly the four pools it was constructed with.
PoolCategoriesFixed ==
    DOMAIN pools = PoolNames

-----------------------------------------------------------------------------
(* Coins collected by the collision check and by the magnet attraction *)

\* the number of scoreChanged events a collection attempt emits
ScoreFor_always(collected) == 1

ScoreFor(collected) == IF collected THEN 1 ELSE 0

\* the coin branch of an attempt on the entry a mesh's userData names
CollectCoin(chunkKey, objectIndex) ==
    /\ gameState = "PLAYING"
    /\ LET res == collectObject(World, loadedChunks, chunkKey, objectIndex)
           known == /\ chunkKey \in DOMAIN loadedChunks /\ loadedChunks[chunkKey].loaded
                    /\ objectIndex >= 0
                    /\ objectIndex < Len(loadedChunks[chunkKey].objects)
       IN /\ Commit(res.w)
          /\ loadedChunks' =
                IF known
                THEN [res.chunks EXCEPT ![chunkKey].objects[objectIndex + 1].scored =
                                            @ + ScoreFor(res.result)]
                ELSE res.chunks
          /\ lastCollect' = [key |-> chunkKey, index |-> objectIndex, result |-> res.result,
                             mesh |-> IF res.result
                                      THEN loadedChunks[chunkKey].objects[objectIndex + 1].mesh
                                      ELSE NULL]
    /\ transitions' = {}
    /\ UNCHANGED <<genVars, terrainVars, synthVars, poolVars, loadVars, flowVars, auxVars>>
    /\ UNCHANGED <<gameState, renderDistance, levelConfig, lastCameraChunk, chunkState,
                   lateTrees>>

\* checkPlayerCollisions, case 'collectCoin'
CollideWithCoin(chunkKey, objectIndex) == CollectCoin(chunkKey, objectIndex)

\* updateCollectibles: the magnet has pulled the coin within the collection threshold
AttractCoin(chunkKey, objectIndex) == CollectCoin(chunkKey, objectIndex)

NextScore ==
    \/ startGame
    \/ loadInitialChunks
    \/ FinishLoading
    \/ \E x \in {v \in ViewPositions : WorldToChunk(v) >= lastCameraChunk} : Update(x)
    \/ \E r \in Regions : ProcessRequested(r)
    \/ \E r \in Regions : CompleteLoad(r)
    \/ \E r \in Regions : CancelLoad(r)
    \/ \E r \in Regions : ProcessUnloading(r)
    \/ \E p \in pendingTrees : TreeResolve(p)
    \* the collision check sees the meshes around the player, the magnet reaches into
    \* the region behind as well
    \/ \E i \in 0..1 : CollideWithCoin(lastCameraChunk, i)
    \/ \E k \in (lastCameraChunk - 1)..lastCameraChunk, i \in 0..1 : AttractCoin(k, i)

SpecScore == Init /\ [][NextScore]_vars

\* C25: while a region's record exists, at most one scoreChanged event has been emitted
\* for each of its entries, whichever of the collision check and the magnet logic made
\* the attempts, and only for an entry that is collected.
ScoredAtMostOnce ==
    \A r \in Regions :
        loadedChunks[r].loaded =>
            \A i \in DOMAIN loadedChunks[r].objects :
                /\ loadedChunks[r].objects[i].scored <= 1
                /\ loadedChunks[r].objects[i].scored = 1 => loadedChunks[r].objects[i].collected

\* a second attempt on a coin that has already scored has just been refused
SecondAttemptRefused ==
    /\ lastCollect.key \in Regions
    /\ ~lastCollect.result
    /\ loadedChunks[lastCollect.key].loaded
    /\ lastCollect.index >= 0
    /\ lastCollect.index < Len(loadedChunks[lastCollect.key].objects)
    /\ loadedChunks[lastCollect.key].objects[lastCollect.index + 1].scored = 1

-----------------------------------------------------------------------------
(* Game flow: event handlers, deferred timers, the start of a level *)

\* everything of the coordinator's world but the game state: no level content is in
\* view while the flow of the game is followed
contentVars == <<renderDistance, levelConfig, lastCameraChunk, chunkState, loadedChunks, transitions, spatialGrid, pools, activeEnemies, entityType, pendingTrees, lateTrees, lastCollect>>

FlowFrame == UNCHANGED <<contentVars, genVars, terrainVars, synthVars, poolVars, loadVars, auxVars>>

LevelIds == {"level1", "level2"}

\* gameplay configuration: score at which level 1 hands over to level 2
LEVEL1_TRANSITION_SCORE == 300

\* gameplayConfig.POWERUP_DURATION, in seconds
POWERUP_DURATION == 2

MaxTimers == 3

MaxScore == 600

MaxNow == 4

\* setTimeout delays of the handlers, in milliseconds
DeathDelay == 10

TransitionDelay == 100

\* the clock counts whole seconds; a timer is due once its delay has passed
Seconds(ms) == ms \div 1000

Flow == [gameState |-> gameState, playerDeathProcessing |-> playerDeathProcessing, timers |-> timers, timerIds |-> timerIds, currentScore |-> currentScore, currentLevelId |-> currentLevelId, starting |-> starting, powerup |-> powerup, powerupTimeout |-> powerupTimeout, log |-> flowLog]

CommitFlow(f) ==
    /\ gameState' = f.gameState
    /\ playerDeathProcessing' = f.playerDeathProcessing
    /\ timers' = f.timers
    /\ timerIds' = f.timerIds
    /\ currentScore' = f.currentScore
    /\ currentLevelId' = f.currentLevelId
    /\ starting' = f.starting
    /\ powerup' = f.powerup
    /\ powerupTimeout' = f.powerupTimeout
    /\ flowLog' = f.log
    /\ UNCHANGED now
    /\ FlowFrame

\* setTimeout(callback, delay): the callback is queued under the next timer id
setTimeout(f, kind, delay, type) ==
    [f EXCEPT !.timerIds = @ + 1,
              !.timers = Append(@, [id |-> f.timerIds + 1, kind |-> kind,
                                    due |-> now + Seconds(delay), type |-> type])]

clearTimeout(f, id) == [f EXCEPT !.timers = SelectSeq(@, LAMBDA t : t.id # id)]

\* PlayerManager.resetPowerups
resetPowerups(f) ==
    LET a == IF f.powerup # "" THEN [f EXCEPT !.powerup = ""] ELSE f
    IN IF a.powerupTimeout # NoTimer
       THEN [clearTimeout(a, a.powerupTimeout) EXCEPT !.powerupTimeout = NoTimer]
       ELSE a

\* ScoreManager.resetCurrentScore
resetCurrentScore(f) == [f EXCEPT !.currentScore = 0]

\* the gameStateChanged handler of eventHandlerSetup.js
gameStateChanged(f, newState) ==
    IF newState = "TITLE"
    THEN resetPowerups(resetCurrentScore([f EXCEPT !.playerDeathProcessing = FALSE]))
    ELSE IF newState = "PLAYING"
    THEN [f EXCEPT !.playerDeathProcessing = FALSE]
    ELSE f

\* gameStateManager.setGameState: a change of state is announced to the handler above
setGameState(f, newState) ==
    IF f.gameState = newState
    THEN f
    ELSE gameStateChanged([f EXCEPT !.gameState = newState], newState)

playerDied_always(f) ==
    setTimeout([f EXCEPT !.playerDeathProcessing = TRUE, !.log.accepted = @ + 1],
               "death", DeathDelay, "")

\* the playerDied handler: one deferred processing per accepted event
playerDied(f) ==
    IF f.playerDeathProcessing
    THEN [f EXCEPT !.log.ignored = @ + 1]
    ELSE setTimeout([f EXCEPT !.playerDeathProcessing = TRUE, !.log.accepted = @ + 1],
                    "death", DeathDelay, "")

\* the deferred callback of the playerDied handler
ProcessDeath(f) ==
    LET a == [f EXCEPT !.log.highScoreUpdates = @ + 1]
        b == [setGameState(a, "GAME_OVER") EXCEPT !.log.toGameOver = @ + 1]
        c == resetPowerups(b)
    IN [c EXCEPT !.log.gameOverEvents = @ + 1]

\* Game.startGame up to its first await (levelManager.loadLevel)
BeginStart(f, levelId) ==
    [f EXCEPT !.starting = [levelId |-> levelId, at |-> "config"],
              !.log.loadFailed = FALSE,
              !.log.atThreshold = IF levelId = "level1" THEN 0 ELSE @,
              !.log.level2Starts = IF levelId = "level1" THEN 0 ELSE @]

\* _loadLevel's catch block, then the rest of startGame: the error is not passed on
LoadFailed(f) ==
    LET a == setGameState([f EXCEPT !.log.loadFailed = TRUE], "TITLE")
    IN [setGameState(a, "TRANSITIONING_TO_GAMEPLAY") EXCEPT !.starting.at = "camera"]

\* levelManager.loadLevel has resolved; startGame goes on into _loadLevel up to the
\* await of initLevelAssets. currentLevelId is the requested level by then, so
\* _loadLevel neither unloads nor loads the configuration again
ConfigResolved(f, ok) ==
    IF ~(f.starting.levelId \in LevelIds /\ ok)
    THEN [setGameState([f EXCEPT !.currentLevelId = NoLevel, !.log.loadFailed = TRUE], "TITLE") EXCEPT !.starting = NoStart]
    ELSE LET a == [f EXCEPT !.currentLevelId = f.starting.levelId]
         IN [setGameState(a, "LOADING_LEVEL") EXCEPT !.starting.at = "assets"]

\* assetManager.initLevelAssets has settled; _loadLevel resets the player and the score
\* and awaits chunkManager.loadInitialChunks
AssetsResolved(f, ok) ==
    IF ~ok
    THEN LoadFailed(f)
    ELSE [resetCurrentScore(f) EXCEPT !.powerup = "", !.starting.at = "chunks"]

\* loadInitialChunks has settled; startGame sets the intermediate state
ChunksResolved(f, ok) ==
    IF ~ok
    THEN LoadFailed(f)
    ELSE [setGameState(f, "TRANSITIONING_TO_GAMEPLAY") EXCEPT !.starting.at = "camera"]

\* LevelManager.unloadCurrentLevel as the flow sees it
ForgetLevel(f) == [f EXCEPT !.currentLevelId = NoLevel]

\* module namespace of scoreManager.js: the functions it exports
ScoreManagerExports == {"init", "loadHighScores", "saveHighScores", "getCurrentScore", "resetCurrentScore", "updateCurrentScore", "getGlobalHighScore", "getLevelHighScore", "isNewGlobalHighScore", "isNewLevelHighScore", "updateHighScore", "isLevelUnlocked"}

getSessionScore_exported(f) == [threw |-> FALSE, value |-> f.currentScore]

\* ScoreManager.getSessionScore(): calling a name the module does not export throws
getSessionScore(f) ==
    IF "getSessionScore" \in ScoreManagerExports
    THEN [threw |-> FALSE, value |-> f.currentScore]
    ELSE [threw |-> TRUE, value |-> 0]

\* ScoreManager.updateCurrentScore
updateCurrentScore(f, increment) == [f EXCEPT !.currentScore = @ + increment]

AtThreshold(f) ==
    /\ f.currentLevelId = "level1"
    /\ f.gameState = "PLAYING"
    /\ f.currentScore >= LEVEL1_TRANSITION_SCORE

\* the scoreChanged handler
scoreChanged(f, scoreIncrement) ==
    LET a == updateCurrentScore(f, scoreIncrement)
        b == [a EXCEPT !.log.atThreshold = IF AtThreshold(a) THEN @ + 1 ELSE @]
        session == getSessionScore(b)
    IN IF session.threw
       THEN b
       ELSE IF b.currentLevelId = "level1" /\ b.gameState = "PLAYING" /\ session.value >= LEVEL1_TRANSITION_SCORE
       THEN setTimeout(b, "transition", TransitionDelay, "")
       ELSE b

\* the deferred callback of the scoreChanged handler
ProcessTransition(f) ==
    IF f.gameState # "PLAYING"
    THEN f
    ELSE LET a == setGameState(f, "LEVEL_TRANSITION")
             b == IF a.currentLevelId = "level1" THEN ForgetLevel(a) ELSE a
             c == resetCurrentScore(b)
         IN [BeginStart(c, "level2") EXCEPT !.log.level2Starts = @ + 1]

\* the expiry callback of PlayerManager.handlePowerupCollected
ExpirePowerup(f, powerupType) ==
    LET a == IF f.powerup = powerupType
             THEN [f EXCEPT !.powerup = "", !.log.expired = @ + 1]
             ELSE f
    IN [a EXCEPT !.powerupTimeout = NoTimer]

CancelPending_never(f) == f

\* if (this.powerupTimeout) clearTimeout(this.powerupTimeout)
CancelPending(f) == IF f.powerupTimeout # NoTimer THEN clearTimeout(f, f.powerupTimeout) ELSE f

\* PlayerManager.handlePowerupCollected
handlePowerupCollected(f, powerupType) ==
    LET wasActive == f.powerup = powerupType
        a == [f EXCEPT !.powerup = powerupType, !.log.collections = @ + 1, !.log.collectedAt = now]
        b == IF wasActive THEN CancelPending(a) ELSE a
        c == setTimeout(CancelPending(b), "powerup", POWERUP_DURATION * 1000, powerupType)
    IN [c EXCEPT !.powerupTimeout = c.timerIds]

RunCallback(f, t) ==
    CASE t.kind = "death" -> ProcessDeath(f)
      [] t.kind = "transition" -> ProcessTransition(f)
      [] OTHER -> ExpirePowerup(f, t.type)

\* the event loop runs a due timer
RunTimer(i) ==
    /\ i \in DOMAIN timers
    /\ timers[i].due <= now
    /\ CommitFlow(RunCallback(clearTimeout(Flow, timers[i].id), timers[i]))

\* the menu starts a level from the title screen
StartFromTitle(levelId) ==
    /\ gameState = "TITLE"
    /\ starting = NoStart
    /\ CommitFlow(BeginStart(Flow, levelId))

LoadLevelResolves(ok) ==
    /\ starting.at = "config"
    /\ CommitFlow(ConfigResolved(Flow, ok))

InitLevelAssetsSettles(ok) ==
    /\ starting.at = "assets"
    /\ CommitFlow(AssetsResolved(Flow, ok))

LoadInitialChunksSettles(ok) ==
    /\ starting.at = "chunks"
    /\ CommitFlow(ChunksResolved(Flow, ok))

\* cameraTransitionComplete('toGameplay'): the camera is driven by the game loop
cameraToGameplay ==
    /\ starting.at = "camera"
    /\ gameState = "TRANSITIONING_TO_GAMEPLAY"
    /\ CommitFlow([setGameState(Flow, "PLAYING") EXCEPT !.starting = NoStart])

\* cameraTransitionComplete('toTitle')
cameraToTitle ==
    /\ gameState = "TRANSITIONING_TO_TITLE"
    /\ CommitFlow(setGameState(Flow, "TITLE"))

\* collision handling emits playerDied while the game is played
PlayerDied ==
    /\ gameState = "PLAYING"
    /\ timerIds < MaxTimers
    /\ flowLog.ignored < MaxTimers
    /\ CommitFlow(playerDied(Flow))

\* a coin is collected while the game is played
ScoreChanged(scoreIncrement) ==
    /\ gameState = "PLAYING"
    /\ timerIds < MaxTimers
    /\ currentScore + scoreIncrement <= MaxScore
    /\ CommitFlow(scoreChanged(Flow, scoreIncrement))

\* handleGlobalKeys: pause while playing, resume while paused, restart when over
requestPause ==
    /\ gameState = "PLAYING"
    /\ CommitFlow(setGameState(Flow, "PAUSED"))

requestResume ==
    /\ gameState = "PAUSED"
    /\ CommitFlow(setGameState(Flow, "PLAYING"))

requestRestart ==
    /\ gameState = "GAME_OVER"
    /\ currentLevelId # NoLevel
    /\ starting = NoStart
    /\ CommitFlow(BeginStart(Flow, currentLevelId))

requestReturnToTitle ==
    /\ gameState \in {"PAUSED", "GAME_OVER"}
    /\ starting = NoStart
    /\ CommitFlow(setGameState(resetPowerups(resetCurrentScore(Flow)), "TRANSITIONING_TO_TITLE"))

InitFlow ==
    /\ gameState = "TITLE"
    /\ renderDistance = 0
    /\ levelConfig = "empty"
    /\ lastCameraChunk = NoRegion
    /\ chunkState = [r \in Regions |-> "Unloaded"]
    /\ loadedChunks = [r \in Regions |-> NoChunk]
    /\ transitions = {}
    /\ spatialGrid = {}
    /\ pools = [n \in PoolNames |-> << >>]
    /\ activeEnemies = << >>
    /\ entityType = << >>
    /\ pendingTrees = {}
    /\ lateTrees = {}
    /\ lastCollect = NoCollect
    /\ GenIdle
    /\ TerrainIdle

NextDeath ==
    \/ StartFromTitle("level1")
    \/ LoadLevelResolves(TRUE)
    \/ InitLevelAssetsSettles(TRUE)
    \/ LoadInitialChunksSettles(TRUE)
    \/ cameraToGameplay
    \/ PlayerDied
    \/ \E i \in DOMAIN timers : RunTimer(i)
    \/ requestPause
    \/ requestResume
    \/ requestRestart
    \/ requestReturnToTitle
    \/ cameraToTitle

SpecDeath == InitFlow /\ [][NextDeath]_vars

DeathsOf(ts) == Len(SelectSeq(ts, LAMBDA t : t.kind = "death"))

\* every accepted playerDied event has one processing, pending or done, and a
\* processing makes one high-score update, one setGameState(GAME_OVER), one gameOver
DeathAccounting ==
    /\ flowLog.accepted = DeathsOf(timers) + flowLog.gameOverEvents
    /\ flowLog.highScoreUpdates = flowLog.gameOverEvents
    /\ flowLog.toGameOver = flowLog.gameOverEvents

\* a playerDied event that arrives while the flag is set changes nothing, and the flag
\* is cleared only by a change of state to TITLE or PLAYING
DuplicateIgnored ==
    /\ (playerDeathProcessing /\ (flowLog'.accepted # flowLog.accepted \/ flowLog'.ignored # flowLog.ignored)
          => /\ flowLog'.accepted = flowLog.accepted
             /\ timers' = timers
             /\ gameState' = gameState
             /\ playerDeathProcessing')
    /\ (playerDeathProcessing /\ ~playerDeathProcessing'
          => gameState' \in {"TITLE", "PLAYING"} /\ gameState' # gameState)

-----------------------------------------------------------------------------
(* Level 1 hands over to level 2 at the transition score *)

\* values a scoreChanged event carries
ScoreIncrements == {150, 300}

NextTransition ==
    \/ StartFromTitle("level1")
    \/ LoadLevelResolves(TRUE)
    \/ InitLevelAssetsSettles(TRUE)
    \/ LoadInitialChunksSettles(TRUE)
    \/ cameraToGameplay
    \/ \E scoreIncrement \in ScoreIncrements : ScoreChanged(scoreIncrement)
    \/ PlayerDied
    \/ \E i \in DOMAIN timers : RunTimer(i)
    \/ requestPause
    \/ requestResume
    \/ requestRestart
    \/ requestReturnToTitle
    \/ cameraToTitle

SpecTransition == InitFlow /\ [][NextTransition]_vars

SpecTransitionFair == SpecTransition /\ WF_vars(\E i \in DOMAIN timers : RunTimer(i))

\* C28: once a scoreChanged event has brought the score of level 1 to the transition
\* score while PLAYING, the game eventually starts level 2 or has left PLAYING
ThresholdStartsLevel2 ==
    [](flowLog.atThreshold > 0 => <>(flowLog.level2Starts > 0 \/ gameState # "PLAYING"))

-----------------------------------------------------------------------------
(* Powerups and their expiry *)

PowerupTypes == {"magnet", "doubler"}

\* a powerup is picked up while the game is played
PowerupCollected(powerupType) ==
    /\ gameState = "PLAYING"
    /\ timerIds < MaxTimers
    /\ CommitFlow(handlePowerupCollected(Flow, powerupType))

\* a second passes
Tick ==
    /\ now < MaxNow
    /\ now' = now + 1
    /\ UNCHANGED <<gameState, playerDeathProcessing, timers, timerIds, currentScore, currentLevelId, starting, powerup, powerupTimeout, flowLog>>
    /\ FlowFrame

NextPowerup ==
    \/ StartFromTitle("level1")
    \/ LoadLevelResolves(TRUE)
    \/ InitLevelAssetsSettles(TRUE)
    \/ LoadInitialChunksSettles(TRUE)
    \/ cameraToGameplay
    \/ \E powerupType \in PowerupTypes : PowerupCollected(powerupType)
    \/ Tick
    \/ PlayerDied
    \/ \E i \in DOMAIN timers : RunTimer(i)
    \/ requestRestart

SpecPowerup == InitFlow /\ [][NextPowerup]_vars

ExpiryTimers == SelectSeq(timers, LAMBDA t : t.kind = "powerup")

\* at most one expiry timer is pending, and it is the one the most recent collection
\* started: its id is the stored one, it is due POWERUP_DURATION after that collection
PendingExpiryIsLatest ==
    /\ Len(ExpiryTimers) <= 1
    /\ \A k \in DOMAIN ExpiryTimers :
          /\ ExpiryTimers[k].id = powerupTimeout
          /\ ExpiryTimers[k].due = flowLog.collectedAt + POWERUP_DURATION
          /\ powerup \in {"", ExpiryTimers[k].type}

\* a step in which an expiry callback deactivates the powerup is not early
ExpiryNotEarly ==
    flowLog'.expired # flowLog.expired => now >= flowLog.collectedAt + POWERUP_DURATION

-----------------------------------------------------------------------------
(* A level fails to load *)

\* level ids a start can be requested with: the two levels and one that does not exist
RequestedLevels == LevelIds \cup {"level9"}

NextLoadFail ==
    \/ \E levelId \in RequestedLevels : StartFromTitle(levelId)
    \/ \E ok \in BOOLEAN : LoadLevelResolves(ok)
    \/ \E ok \in BOOLEAN : InitLevelAssetsSettles(ok)
    \/ \E ok \in BOOLEAN : LoadInitialChunksSettles(ok)
    \/ cameraToGameplay
    \/ PlayerDied
    \/ \E i \in DOMAIN timers : RunTimer(i)
    \/ requestRestart
    \/ requestReturnToTitle
    \/ cameraToTitle

SpecLoadFail == InitFlow /\ [][NextLoadFail]_vars

\* C30: when the load of a level has failed at any step, the game is back at TITLE and
\* does not go on to TRANSITIONING_TO_GAMEPLAY or PLAYING for that level
FailedLoadEndsAtTitle ==
    flowLog.loadFailed => gameState \notin {"TRANSITIONING_TO_GAMEPLAY", "PLAYING"}

-----------------------------------------------------------------------------
(* Requests of the menus while a transition is running *)

MaxRequests == 2

\* sceneTransitionManager.getIsTransitioning() || cameraManager.getIsTransitioning():
\* the camera moves to gameplay from startGame until cameraTransitionComplete, and to
\* the title while the state is TRANSITIONING_TO_TITLE
IsTransitioning(f) ==
    \/ f.starting.at \in {"assets", "chunks", "camera"}
    \/ f.gameState = "TRANSITIONING_TO_TITLE"

Requested(f) == [f EXCEPT !.log.requests = @ + 1]

Refused(f) == [f EXCEPT !.log.requests = @ + 1, !.log.refused = @ + 1, !.log.refusedWith = f.currentScore]

\* the requestRestart handler
onRequestRestart(f) ==
    IF f.currentLevelId # NoLevel /\ ~IsTransitioning(f)
    THEN BeginStart(Requested(f), f.currentLevelId)
    ELSE Refused(f)

\* the requestReturnToTitle handler
onRequestReturnToTitle(f) ==
    IF IsTransitioning(f)
    THEN Refused(f)
    ELSE LET a == resetPowerups(resetCurrentScore(Requested(f)))
         IN IF f.gameState = "LEVEL_SELECT"
            THEN setGameState(a, "TITLE")
            ELSE setGameState(a, "TRANSITIONING_TO_TITLE")

onRequestShowLevelSelect_unchecked(f) == setGameState(Requested(f), "LEVEL_SELECT")

\* the requestShowLevelSelect handler
onRequestShowLevelSelect(f) ==
    IF IsTransitioning(f)
    THEN Refused(f)
    ELSE setGameState(Requested(f), "LEVEL_SELECT")

\* a menu button or key emits the request, whatever the game is doing; a second
\* startGame is not requested while one is still loading the level configuration
RestartRequested ==
    /\ flowLog.requests < MaxRequests
    /\ starting.at # "config"
    /\ CommitFlow(onRequestRestart(Flow))

ReturnToTitleRequested ==
    /\ flowLog.requests < MaxRequests
    /\ CommitFlow(onRequestReturnToTitle(Flow))

ShowLevelSelectRequested ==
    /\ flowLog.requests < MaxRequests
    /\ CommitFlow(onRequestShowLevelSelect(Flow))

\* the level select menu starts the chosen level
StartFromLevelSelect(levelId) ==
    /\ gameState = "LEVEL_SELECT"
    /\ starting = NoStart
    /\ CommitFlow(BeginStart(Flow, levelId))

NextRequests ==
    \/ StartFromTitle("level1")
    \/ \E levelId \in LevelIds : StartFromLevelSelect(levelId)
    \/ LoadLevelResolves(TRUE)
    \/ InitLevelAssetsSettles(TRUE)
    \/ LoadInitialChunksSettles(TRUE)
    \/ cameraToGameplay
    \/ cameraToTitle
    \/ \E scoreIncrement \in ScoreIncrements : ScoreChanged(scoreIncrement)
    \/ PlayerDied
    \/ \E i \in DOMAIN timers : RunTimer(i)
    \/ RestartRequested
    \/ ReturnToTitleRequested
    \/ ShowLevelSelectRequested

SpecRequests == InitFlow /\ [][NextRequests]_vars

\* a step in which one of the three requests is handled during a transition
RequestDuringTransition ==
    /\ starting.at \in {"assets", "chunks", "camera"} \/ gameState = "TRANSITIONING_TO_TITLE"
    /\ flowLog'.requests # flowLog.requests

\* C31: while a scene or camera transition is in progress, requestRestart,
\* requestReturnToTitle and requestShowLevelSelect change neither the game state nor
\* the loaded level nor the score (nor start a level)
RequestsWaitForTransition ==
    [][RequestDuringTransition => UNCHANGED <<gameState, currentLevelId, currentScore, starting>>]_vars

\* a request was turned down while a level with a score on it was being restarted
RefusedWithScore ==
    /\ flowLog.refused >= 1
    /\ flowLog.refusedWith > 0
    /\ currentScore > 0
    /\ currentLevelId = "level1"
    /\ starting.at = "assets"

-----------------------------------------------------------------------------
(* Enemy behaviour: idle, roaming, chasing, returning *)

\* enemyDefaultsConfig, in the distance units of this specification
AGGRO_RADIUS == 2

DEAGGRO_RADIUS == 3

RETURN_DISTANCE_THRESHOLD == 1

MaxDistance == 4

MaxWait == 2

Distances == 0..MaxDistance

CurrentPowerups == {"", "magnet", "invisibility"}

\* case ENEMY_STATE.ROAMING of _updateState (deltaTime is one unit)
RoamingCase(e, distanceToPlayer, currentPowerup) ==
    IF distanceToPlayer < AGGRO_RADIUS /\ currentPowerup # "invisibility"
    THEN [e EXCEPT !.state = "chasing", !.roamingTarget = FALSE, !.roamingWaitTimer = 0]
    ELSE IF e.roamingWaitTimer > 0
    THEN [e EXCEPT !.roamingWaitTimer = @ - 1, !.roamingTarget = IF e.roamingWaitTimer - 1 <= 0 THEN TRUE ELSE @]
    ELSE e

ReturningCase_guarded(e, distanceToPlayer, distanceToOrigin, currentPowerup, wait) ==
    IF distanceToOrigin < RETURN_DISTANCE_THRESHOLD
    THEN [e EXCEPT !.state = "roaming", !.roamingTarget = FALSE, !.roamingWaitTimer = wait]
    ELSE IF distanceToPlayer < AGGRO_RADIUS /\ currentPowerup # "invisibility"
    THEN [e EXCEPT !.state = "chasing", !.roamingTarget = FALSE, !.roamingWaitTimer = 0]
    ELSE e

\* case ENEMY_STATE.RETURNING of _updateState: the powerup is not looked at
ReturningCase(e, distanceToPlayer, distanceToOrigin, currentPowerup, wait) ==
    IF distanceToOrigin < RETURN_DISTANCE_THRESHOLD
    THEN [e EXCEPT !.state = "roaming", !.roamingTarget = FALSE, !.roamingWaitTimer = wait]
    ELSE IF distanceToPlayer < AGGRO_RADIUS
    THEN [e EXCEPT !.state = "chasing", !.roamingTarget = FALSE, !.roamingWaitTimer = 0]
    ELSE e

\* Enemy._updateState; the IDLE case falls through into the ROAMING case
updateState(e, distanceToPlayer, distanceToOrigin, currentPowerup, wait) ==
    CASE e.state = "idle" ->
           RoamingCase([e EXCEPT !.state = "roaming", !.roamingTarget = TRUE], distanceToPlayer, currentPowerup)
      [] e.state = "roaming" -> RoamingCase(e, distanceToPlayer, currentPowerup)
      [] e.state = "chasing" ->
           IF distanceToPlayer > DEAGGRO_RADIUS \/ currentPowerup = "invisibility"
           THEN [e EXCEPT !.state = "returning"]
           ELSE e
      [] OTHER -> ReturningCase(e, distanceToPlayer, distanceToOrigin, currentPowerup, wait)

\* Enemy._updateMovement as far as it writes the state: a roaming or returning enemy
\* that arrives at its target waits there as ROAMING
updateMovement(e, arrives, wait) ==
    LET hasTarget == \/ e.state \in {"chasing", "returning"}
                     \/ e.state = "roaming" /\ e.roamingTarget /\ e.roamingWaitTimer <= 0
        isMoving == hasTarget /\ e.roamingWaitTimer <= 0
    IN IF isMoving /\ arrives /\ e.state \in {"roaming", "returning"}
       THEN [e EXCEPT !.state = "roaming", !.roamingTarget = FALSE, !.roamingWaitTimer = wait]
       ELSE e

\* EnemyManager.update -> enemy.update(playerPos, currentPowerup, deltaTime, elapsedTime)
UpdateEnemy(distanceToPlayer, distanceToOrigin, currentPowerup, arrives, wait) ==
    /\ enemyAI' = [updateMovement(updateState(enemyAI, distanceToPlayer, distanceToOrigin, currentPowerup, wait), arrives, wait) EXCEPT !.was = enemyAI.state, !.powerup = currentPowerup, !.distanceToPlayer = distanceToPlayer]
    /\ UNCHANGED <<worldVars, genVars, terrainVars, synthVars, poolVars, loadVars, flowVars>>
    /\ UNCHANGED <<interaction, highScores, collisions>>

InitEnemy ==
    /\ WorldIdle
    /\ GenIdle
    /\ TerrainIdle

NextEnemy ==
    \E distanceToPlayer \in Distances, distanceToOrigin \in Distances, currentPowerup \in CurrentPowerups, arrives \in BOOLEAN, wait \in 1..MaxWait :
        UpdateEnemy(distanceToPlayer, distanceToOrigin, currentPowerup, arrives, wait)

SpecEnemy == InitEnemy /\ [][NextEnemy]_vars

\* C32: after an update made while the player is invisible the enemy is not CHASING:
\* it did not enter that state, and it left it if it was in it
InvisibleNeverChased == enemyAI.powerup = "invisibility" => enemyAI.state # "chasing"

-----------------------------------------------------------------------------
(* EnemyManager: enemies between the active map and the pool *)

\* what the enemy manager does not touch
EnemyFrame ==
    /\ UNCHANGED <<gameState, renderDistance, levelConfig, lastCameraChunk, chunkState, loadedChunks, transitions, lateTrees, lastCollect>>
    /\ UNCHANGED <<genVars, terrainVars, synthVars, poolVars, loadVars, flowVars, auxVars>>

SpawnEnemy(enemyType) ==
    /\ Commit(spawnEnemy(World, enemyType, levelConfig, FALSE).w)
    /\ EnemyFrame

\* removeEnemy is called with any enemy instance the caller still refers to
RemoveEnemy(enemyInstance) ==
    /\ enemyInstance \in 1..Len(entityType)
    /\ Commit(removeEnemy(World, enemyInstance))
    /\ EnemyFrame

\* EnemyManager.removeEnemyByMeshId
RemoveEnemyByMeshId(meshId) ==
    /\ Commit(IF meshId \in SeqToSet(activeEnemies) THEN removeEnemy(World, meshId) ELSE World)
    /\ EnemyFrame

RemoveAllEnemies ==
    /\ Commit(removeAllEnemies(World))
    /\ EnemyFrame

InitEnemies ==
    /\ InitWorld
    /\ renderDistance = 0
    /\ levelConfig = "level1"
    /\ GenIdle
    /\ TerrainIdle

NextEnemies ==
    \/ \E enemyType \in ENEMY_TYPES("level1") \cup {"dragon"} : SpawnEnemy(enemyType)
    \/ \E enemyInstance \in 1..MaxEntities : RemoveEnemy(enemyInstance)
    \/ \E meshId \in 1..MaxEntities : RemoveEnemyByMeshId(meshId)
    \/ RemoveAllEnemies

SpecEnemies == InitEnemies /\ [][NextEnemies]_vars

NoRepeats(q) == \A i, j \in DOMAIN q : q[i] = q[j] => i = j

\* no enemy is both active and pooled, and none is pooled or active twice
ActiveApartFromPool ==
    /\ SeqToSet(activeEnemies) \cap SeqToSet(pools["enemies"]) = {}
    /\ NoRepeats(pools["enemies"])
    /\ NoRepeats(activeEnemies)

-----------------------------------------------------------------------------
(* The interaction screen: one promise per request for a user gesture *)

MaxPromises == 2

InteractionEvents == {"click", "keydown"}

AuxFrame == UNCHANGED <<worldVars, genVars, terrainVars, synthVars, poolVars, loadVars, flowVars>>

\* requestInteraction: promises are numbered in the order they are created; 0 is null
requestInteraction(x) ==
    IF x.interactionPromise = 0
    THEN [x EXCEPT !.interactionPromise = x.promises + 1,
                   !.resolveInteractionPromise = x.promises + 1,
                   !.promises = @ + 1,
                   !.returned = x.promises + 1,
                   !.inits = 0,
                   !.listeners = InteractionEvents]
    ELSE [x EXCEPT !.returned = x.interactionPromise]

\* BaseManager.init up to its await: a call made before an earlier one has set
\* isInitialized runs setupManager again
init(x) == IF x.isInitialized THEN x ELSE [x EXCEPT !.inits = @ + 1]

\* handleInteraction up to its await: the listener was added with once: true
handleInteraction(x, event) ==
    LET a == [x EXCEPT !.listeners = @ \ {event}]
    IN IF a.resolveInteractionPromise = 0
       THEN a
       ELSE [init(a) EXCEPT !.awaiting = Append(@, event)]

\* handleInteraction after AudioManager.init() has settled: calling the resolver that
\* another run of the handler has set to null throws
AfterAudioInit(x, i, ok) ==
    LET a == [x EXCEPT !.awaiting = SubSeq(@, 1, i - 1) \o SubSeq(@, i + 1, Len(@)),
                       !.isInitialized = @ \/ ok]
    IN IF a.resolveInteractionPromise = 0
       THEN [a EXCEPT !.errors = @ + 1]
       ELSE [a EXCEPT !.resolved = @ \cup {a.resolveInteractionPromise},
                      !.resolveInteractionPromise = 0,
                      !.interactionPromise = 0]

RequestInteraction ==
    /\ interaction.promises < MaxPromises \/ interaction.interactionPromise # 0
    /\ interaction' = requestInteraction(interaction)
    /\ UNCHANGED <<enemyAI, highScores, collisions>>
    /\ AuxFrame

\* the browser delivers a click or a keydown to the listener
UserGesture(event) ==
    /\ event \in interaction.listeners
    /\ interaction' = handleInteraction(interaction, event)
    /\ UNCHANGED <<enemyAI, highScores, collisions>>
    /\ AuxFrame

\* AudioManager.init() settles for the i-th handler that awaits it
AudioInitSettles(i, ok) ==
    /\ i \in DOMAIN interaction.awaiting
    /\ interaction' = AfterAudioInit(interaction, i, ok)
    /\ UNCHANGED <<enemyAI, highScores, collisions>>
    /\ AuxFrame

NextInteraction ==
    \/ RequestInteraction
    \/ \E event \in InteractionEvents : UserGesture(event)
    \/ \E i \in 1..(2 * MaxPromises), ok \in BOOLEAN : AudioInitSettles(i, ok)

SpecInteraction == InitEnemy /\ [][NextInteraction]_vars

\* C34: for one interaction request the audio is initialised once and the handler
\* resolves once, also when a click and a keydown both arrive before the
\* initialisation has finished
AudioInitialisedOnce == interaction.inits <= 1 /\ interaction.errors = 0

-----------------------------------------------------------------------------
(* The collision manager: player collisions are processed while the game is played *)

MaxNearby == 2

COIN_SCORE == 150

\* the objects the spatial grid can return near the player: the effect of their model
\* and what chunkManager.collectObject answers for them
NearbyObjects ==
    {[effect |-> "damagePlayer", collects |-> FALSE], [effect |-> "impede", collects |-> FALSE]}
        \cup [effect : {"collectCoin", "collectPowerup"}, collects : BOOLEAN]

NearbyLists == UNION {[1..n -> NearbyObjects] : n \in 0..MaxNearby}

NotPlaying_never(state) == FALSE

\* gameStateManager.getCurrentState() !== GameStates.PLAYING
NotPlaying(state) == state # "PLAYING"

\* eventBus.emit as the collision manager calls it: the listener runs before emit returns
emit(s, event, f) == [f |-> f, c |-> [s.c EXCEPT !.events = @ \cup {<<event, s.f.gameState>>}]]

Collected(s) == [s EXCEPT !.c.collected = @ \cup {s.f.gameState}]

\* the body of the loop over the nearby objects, for one object in collision range
Collide(s, object) ==
    CASE object.effect = "damagePlayer" -> emit(s, "playerDied", playerDied(s.f))
      [] object.effect = "collectCoin" /\ object.collects ->
            emit(Collected(s), "scoreChanged",
                 scoreChanged(s.f, IF s.f.powerup = "doubler" THEN COIN_SCORE * 2 ELSE COIN_SCORE))
      [] object.effect = "collectPowerup" /\ object.collects ->
            emit(Collected(s), "powerupCollected", handlePowerupCollected(s.f, "magnet"))
      [] OTHER -> s

RECURSIVE ProcessNearby(_, _, _)
ProcessNearby(s, nearbyObjects, i) ==
    IF i > Len(nearbyObjects)
    THEN s
    ELSE IF nearbyObjects[i].effect = "damagePlayer"
    THEN Collide(s, nearbyObjects[i])
    ELSE ProcessNearby(Collide(s, nearbyObjects[i]), nearbyObjects, i + 1)

checkPlayerCollisions(s, nearbyObjects) ==
    IF NotPlaying(s.f.gameState) THEN s ELSE ProcessNearby(s, nearbyObjects, 1)

\* CollisionManager.update: checkEnemyCollisions only pushes enemies apart
update(s, nearbyObjects) ==
    IF NotPlaying(s.f.gameState)
    THEN [s EXCEPT !.c.skipped = @ \cup {s.f.gameState}]
    ELSE checkPlayerCollisions(s, nearbyObjects)

\* CollisionManager.update(player) is called, in whatever state the game is
CollisionUpdate(nearbyObjects) ==
    /\ timerIds + Len(nearbyObjects) <= MaxTimers
    /\ update([f |-> Flow, c |-> collisions], nearbyObjects).f.currentScore <= MaxScore
    /\ flowLog.ignored < MaxTimers
    /\ LET s == update([f |-> Flow, c |-> collisions], nearbyObjects)
       IN /\ collisions' = s.c
          /\ gameState' = s.f.gameState
          /\ playerDeathProcessing' = s.f.playerDeathProcessing
          /\ timers' = s.f.timers
          /\ timerIds' = s.f.timerIds
          /\ currentScore' = s.f.currentScore
          /\ currentLevelId' = s.f.currentLevelId
          /\ starting' = s.f.starting
          /\ powerup' = s.f.powerup
          /\ powerupTimeout' = s.f.powerupTimeout
          /\ flowLog' = s.f.log
    /\ UNCHANGED <<now, enemyAI, interaction, highScores>>
    /\ UNCHANGED <<contentVars, genVars, terrainVars, synthVars, poolVars, loadVars>>

NextCollisions ==
    \/ StartFromTitle("level1")
    \/ LoadLevelResolves(TRUE)
    \/ InitLevelAssetsSettles(TRUE)
    \/ LoadInitialChunksSettles(TRUE)
    \/ cameraToGameplay
    \/ \E nearbyObjects \in NearbyLists : CollisionUpdate(nearbyObjects)
    \/ requestPause
    \/ requestResume
    \/ \E i \in DOMAIN timers : RunTimer(i)

SpecCollisions == InitFlow /\ [][NextCollisions]_vars

EmittedWhilePlaying ==
    /\ \A e \in collisions.events : e[2] = "PLAYING"
    /\ collisions.collected \subseteq {"PLAYING"}

\* C35: collision processing runs only while the game state is PLAYING: in any other
\* state the collision manager emits no playerDied, scoreChanged or powerupCollected
\* event, collects no object and leaves score, powerup and timers alone
CollisionsOnlyWhilePlaying ==
    /\ []EmittedWhilePlaying
    /\ [][NotPlaying(gameState) /\ collisions' # collisions =>
            /\ collisions'.events = collisions.events
            /\ collisions'.collected = collisions.collected
            /\ <<currentScore, powerup, timers, flowLog>>' = <<currentScore, powerup, timers, flowLog>>]_vars

\* an update was skipped while the game was paused, after a coin and a powerup had
\* been collected in play
SkippedWhilePaused ==
    /\ "PAUSED" \in collisions.skipped
    /\ {<<"scoreChanged", "PLAYING">>, <<"powerupCollected", "PLAYING">>} \subseteq collisions.events

-----------------------------------------------------------------------------
(* ScoreManager: the global high score and the high score of each level *)

MaxHighScore == 3

\* the scores a caller passes; a level without an entry in highScoresByLevel reads as 0
Scores == -1..MaxHighScore

getLevelHighScore(h, levelId) == h.highScoresByLevel[levelId]

isNewGlobalHighScore(h, score) == score > h.globalHighScore

isNewLevelHighScore_any(h, score, levelId) == score # getLevelHighScore(h, levelId)

isNewLevelHighScore(h, score, levelId) == score > getLevelHighScore(h, levelId)

\* saveHighScores: setItem can throw (storage full or disabled); written is the number
\* of setItem calls that succeed, the first writes the global score
saveHighScores(h, written) ==
    [h EXCEPT !.stored.globalHighScore = IF written >= 1 THEN h.globalHighScore ELSE @,
              !.stored.highScoresByLevel = IF written >= 2 THEN h.highScoresByLevel ELSE @]

\* loadHighScores: a key that was never written leaves the value in memory
loadHighScores(h) ==
    [h EXCEPT !.globalHighScore = h.stored.globalHighScore,
              !.highScoresByLevel = h.stored.highScoresByLevel]

updateHighScore(h, score, levelId, written) ==
    LET a == IF isNewGlobalHighScore(h, score) THEN [h EXCEPT !.globalHighScore = score] ELSE h
        forLevel == levelId # NoLevel /\ isNewLevelHighScore(a, score, levelId)
        b == IF forLevel THEN [a EXCEPT !.highScoresByLevel[levelId] = score] ELSE a
        isNewHighScore == isNewGlobalHighScore(h, score) \/ forLevel
        c == IF isNewHighScore THEN saveHighScores(b, written) ELSE b
    IN [c EXCEPT !.op = "updateHighScore", !.score = score, !.levelId = levelId,
                 !.isNewHighScore = isNewHighScore]

UpdateHighScore(score, levelId, written) ==
    /\ highScores' = updateHighScore(highScores, score, levelId, written)
    /\ UNCHANGED <<enemyAI, interaction, collisions>>
    /\ AuxFrame

\* ScoreManager.init on the next page load
InitScoreManager ==
    /\ highScores' = [loadHighScores(highScores) EXCEPT !.op = "init"]
    /\ UNCHANGED <<enemyAI, interaction, collisions>>
    /\ AuxFrame

NextHighScores ==
    \/ \E score \in Scores, levelId \in LevelIds \cup {NoLevel}, written \in 0..2 : UpdateHighScore(score, levelId, written)
    \/ InitScoreManager

SpecHighScores == InitEnemy /\ [][NextHighScores]_vars

GlobalAtLeastLevels == \A l \in LevelIds : highScores.globalHighScore >= highScores.highScoresByLevel[l]

NeverDecreased ==
    highScores'.op = "updateHighScore" =>
        /\ highScores'.globalHighScore >= highScores.globalHighScore
        /\ \A l \in LevelIds : highScores'.highScoresByLevel[l] >= highScores.highScoresByLevel[l]

\* C36: across any sequence of updateHighScore calls the global high score and the high
\* score of each level never decrease, and the global high score is at least as large
\* as the high score of every level
HighScoresMonotone == []GlobalAtLeastLevels /\ [][NeverDecreased]_vars

\* a score that is a new high score of its level only, below the global high score
LevelOnlyHighScore ==
    /\ highScores.op = "updateHighScore"
    /\ highScores.isNewHighScore
    /\ highScores.levelId = "level2"
    /\ highScores.score < highScores.globalHighScore
    /\ highScores.highScoresByLevel["level1"] > highScores.score

====
